---- MODULE Spec2Model ----
(***************************************************************************)
(* The tool-augmented conversation loop of src/inception_agent.py:        *)
(* InceptionAgent (transcript, tool registry, chat loop) and the remote   *)
(* completion service it calls through InceptionLabsModel.                *)
(*                                                                         *)
(* Strings the code formats are modelled as tuples of their parts, so two *)
(* formatted strings are equal exactly when their parts are; None is the  *)
(* empty tuple.                                                            *)
(***************************************************************************)
EXTENDS Integers, Sequences, FiniteSets, TLC

(* ------------------------------ bounds -------------------------------- *)

\* Largest max_iterations a caller passes to chat.
MaxIter == 2

\* Most tool_calls entries the service puts in one response.
MaxCalls == 2

\* Most add_tool calls made on one agent.
MaxTools == 2

\* A chat call starts only on a transcript of at most this many messages.
MaxStartLen == 3

(* --------------------------- input alphabets --------------------------- *)

\* Threads that may call chat on the one agent; Sequential is the single caller.
Callers == {1, 2}

Sequential == {1}

\* Function names: used by add_tool and by the service in tool_calls.
ToolNames == {"f", "g"}

\* Texts the caller passes to chat.
UserTexts == {"hi", "more"}

\* Argument payloads the service sends: a JSON object and a malformed text.
Arguments == {"{}", "{oops"}

\* max_iterations values a caller passes (a Python int: may be <= 0).
IterChoices == (-1) .. MaxIter

(* ------------------------------ messages ------------------------------- *)

None == << >>

Text(s) == <<"text", s>>

NoId == 0

\* No callable: callables are numbered from 1.
NoCallable == 0

\* A transcript entry.  tc_key says whether the dict has a "tool_calls" key;
\* tool_call_id is NoId when the dict has no such key.
Message(role, content, tc_key, tool_calls, tool_call_id) ==
    [role |-> role, content |-> content, tc_key |-> tc_key,
     tool_calls |-> tool_calls, tool_call_id |-> tool_call_id]

SystemPrompt == Text("You are a helpful assistant.")

Model == "inception-default"

SystemMessage == Message("system", SystemPrompt, FALSE, << >>, NoId)

UserMessage(user_message) == Message("user", Text(user_message), FALSE, << >>, NoId)

ToolMessage(id, tool_result) == Message("tool", tool_result, FALSE, << >>, id)

\* Faulty variant of HasToolCalls: the test is for the key, not for a non-empty list.
HasToolCallsKey(m) == m.tc_key

\* dict.get("tool_calls") is truthy: the key is there and the list is not empty.
HasToolCalls(m) == m.tc_key /\ Len(m.tool_calls) > 0

Sentinel == <<"Max iterations reached without final response">>

(* ------------------------- the remote service -------------------------- *)

ToolCall(id, name, arguments) == [id |-> id, name |-> name, arguments |-> arguments]

\* The tool_calls lists of a response: 1..MaxCalls entries with ids distinct
\* within the list, the same ids coming back from one response to the next.
\* A list of one entry carries id 1 or 2, a longer one the ids 1, 2, ...
ToolCallLists ==
    UNION { { [j \in 1 .. n |-> ToolCall(base + j, nm[j], ar[j])] :
                base \in 0 .. (IF n = 1 THEN 1 ELSE 0),
                nm \in [1 .. n -> ToolNames], ar \in [1 .. n -> Arguments] } :
            n \in 1 .. MaxCalls }

\* A terminal response: content, with tool_calls absent or an empty list.
FinalResponses ==
    { Message("assistant", Text("done"), FALSE, << >>, NoId),
      Message("assistant", Text("done"), TRUE, << >>, NoId),
      Message("assistant", None, FALSE, << >>, NoId) }

ToolCallResponses == { Message("assistant", None, TRUE, tcs, NoId) : tcs \in ToolCallLists }

Responses == FinalResponses \cup ToolCallResponses

(* ------------------------------ callables ------------------------------ *)

\* What the try block of execute_tool_call does for a registered callable:
\* the call returns a value that json.dumps serializes, or something in the
\* block raises (the callable itself, the ** unpacking of arguments that are
\* not a JSON object, or json.dumps of the result).
Outcomes == { [raises |-> FALSE, value |-> "null"], [raises |-> TRUE, value |-> "boom"] }

\* json.loads succeeds on a JSON text and raises on anything else.
JsonLoads(s) == IF s = "{}" THEN [ok |-> TRUE, value |-> "dict"] ELSE [ok |-> FALSE, value |-> "JSONDecodeError"]

JsonDumps(v) == <<"json", v>>

NotFound(name) == <<"Error: Function ", name, " not found">>

ErrorExecuting(name, msg) == <<"Error executing ", name, ": ", msg>>

(* -------------------------------- state -------------------------------- *)

VARIABLES
    conversation_history,   \* InceptionAgent.conversation_history
    tools,                  \* InceptionAgent.tools: the definitions sent to the service
    tool_functions,         \* InceptionAgent.tool_functions: name -> callable
    pc,                     \* per caller: where its chat call stands
    iteration,              \* per caller: chat's local iteration
    max_iterations,         \* per caller: chat's argument
    pending,                \* per caller: the tool_calls list the for loop walks
    idx,                    \* per caller: position of the for loop in pending
                            \* (iteration, pending and idx are locals of chat: they
                            \*  go back to their initial values when the call ends)
    result,                 \* per caller: the value chat returned
    exc,                    \* per caller: the exception chat raised
    payload,                \* per caller: the request in flight
    requests,               \* per caller: requests issued by the current chat call
    invoked,                \* per caller: callable invocations made by the current chat call
    last_callable,          \* per caller: the callable invoked last by the current chat call
    start_len,              \* per caller: transcript length when chat was called
    last_op,                \* the method of the agent that was called last
    program,                \* the script that is running: the one around InceptionAgent,
                            \* interactive_agent.py or agent_with_guardrails.py
    messages,               \* interactive_agent.py: ChatAgent.messages
    response,               \* interactive_agent.py: what ChatAgent.chat returned last
    turn,                   \* interactive_agent.py: the last call on the ChatAgent
    session,                \* interactive_agent.py: whether the loop of main is running
    main_pass,              \* interactive_agent.py: the last pass of the loop of main
    example,                \* agent_with_guardrails.py: the example function running
    query_i,                \* agent_with_guardrails.py: passes of its for loop made
    conv_messages,          \* agent_with_guardrails.py: messages of the conversational example
    last_pass               \* agent_with_guardrails.py: the last pass of a for loop

vars == <<conversation_history, tools, tool_functions, pc, iteration, max_iterations,
          pending, idx, result, exc, payload, requests, invoked, last_callable, start_len, last_op,
          program, messages, response, turn, session, main_pass,
          example, query_i, conv_messages, last_pass>>

agent == <<conversation_history, tools, tool_functions>>

locals == <<pc, iteration, max_iterations, pending, idx, result, exc, payload,
            requests, invoked, last_callable, start_len, last_op>>

\* The state of the scripts around ChatAgent and around the guardrail classes.
main_loop == <<session, main_pass>>

interactive == <<messages, response, turn, main_loop>>

guardrails == <<example, query_i, conv_messages, last_pass>>

moderated == <<program, interactive, guardrails>>

\* The empty name -> callable mapping.
NoFunctions == [n \in {} |-> 0]

NoPayload == [sent |-> FALSE, model |-> Model, messages |-> << >>, has_tools |-> FALSE, tools |-> << >>]

\* pc of a caller that is not inside chat.  "returned" and "raised" say that
\* chat has just come back, with result or exc; the caller's next operation
\* on the agent moves it on.
Idle == {"idle", "returned", "raised"}

\* The callers' state when no chat call is running and none has just come back.
NoCall ==
    /\ pc = [c \in Callers |-> "idle"]
    /\ iteration = [c \in Callers |-> 0]
    /\ max_iterations = [c \in Callers |-> 0]
    /\ pending = [c \in Callers |-> << >>]
    /\ idx = [c \in Callers |-> 0]
    /\ result = [c \in Callers |-> None]
    /\ exc = [c \in Callers |-> "none"]
    /\ payload = [c \in Callers |-> NoPayload]
    /\ requests = [c \in Callers |-> 0]
    /\ invoked = [c \in Callers |-> 0]
    /\ last_callable = [c \in Callers |-> NoCallable]
    /\ start_len = [c \in Callers |-> 0]

\* The callers move on: what the last chat call left behind is dropped.
MoveOn ==
    /\ pc' = [c \in Callers |-> "idle"]
    /\ iteration' = [c \in Callers |-> 0]
    /\ max_iterations' = [c \in Callers |-> 0]
    /\ pending' = [c \in Callers |-> << >>]
    /\ idx' = [c \in Callers |-> 0]
    /\ result' = [c \in Callers |-> None]
    /\ exc' = [c \in Callers |-> "none"]
    /\ payload' = [c \in Callers |-> NoPayload]
    /\ requests' = [c \in Callers |-> 0]
    /\ invoked' = [c \in Callers |-> 0]
    /\ last_callable' = [c \in Callers |-> NoCallable]
    /\ start_len' = [c \in Callers |-> 0]

\* InceptionAgent.__init__
NewInceptionAgent ==
    /\ conversation_history = <<SystemMessage>>
    /\ tools = << >>
    /\ tool_functions = NoFunctions
    /\ NoCall
    /\ last_op = "__init__"

(* ------------------ moderation and the Mercury service ----------------- *)

\* A chat call appends a user message only to a ChatAgent transcript of fewer
\* than 1 + 2 * MaxTurns messages.
MaxTurns == 2

\* What the moderation request does: it answers "not flagged", answers
\* "flagged" with the categories, or raises.
Unflagged == [raises |-> FALSE, flagged |-> FALSE, categories |-> ""]

Flagged == [raises |-> FALSE, flagged |-> TRUE, categories |-> "violence"]

ModerationError == [raises |-> TRUE, flagged |-> FALSE, categories |-> ""]

Moderations == {Unflagged, Flagged, ModerationError}

\* What the completion request to the Mercury model does: it returns a
\* message content, or raises.
Completions ==
    { [raises |-> FALSE, content |-> Text("answer")],
      [raises |-> TRUE, content |-> Text("timeout")] }

\* What the gpt-4o-mini validation request of the output guardrail does.
Validations ==
    { [raises |-> FALSE, text |-> "YES"],
      [raises |-> FALSE, text |-> "NO: vague"],
      [raises |-> TRUE, text |-> ""] }

\* Stand-ins for a request that a call did not make.
NotAsked == [raises |-> FALSE, flagged |-> FALSE, categories |-> "not asked"]

NotCompleted == [raises |-> FALSE, content |-> None]

NotValidated == [raises |-> FALSE, text |-> "not asked"]

\* A message of the OpenAI-client scripts: a dict with role and content.
ChatMessage(role, content) == [role |-> role, content |-> content]

(* -------------------- interactive_agent.py: ChatAgent ------------------ *)

ChatAgentSystemMessage ==
    ChatMessage("system", Text("You are a helpful, friendly assistant. Be concise but informative."))

\* The pair (is_safe, error_msg) the two checks return; "" is the one-part text.
Safe == [is_safe |-> TRUE, error_msg |-> <<"">>]

\* Faulty variant of check_input_safety: an error of the moderation request
\* blocks the input.
check_input_safety_closed(moderation) ==
    IF moderation.raises
      THEN [is_safe |-> FALSE, error_msg |-> <<"Content policy violation: ", "error">>]
    ELSE IF moderation.flagged
      THEN [is_safe |-> FALSE,
            error_msg |-> <<"Content policy violation: ", moderation.categories>>]
    ELSE Safe

\* try: the request; flagged -> (False, "Content policy violation: ...");
\* not flagged -> (True, ""); except Exception -> (True, "").
check_input_safety(moderation) ==
    IF moderation.raises
      THEN Safe
    ELSE IF moderation.flagged
      THEN [is_safe |-> FALSE,
            error_msg |-> <<"Content policy violation: ", moderation.categories>>]
    ELSE Safe

check_output_safety(moderation) ==
    IF moderation.raises
      THEN Safe
    ELSE IF moderation.flagged
      THEN [is_safe |-> FALSE,
            error_msg |-> <<"Response blocked due to: ", moderation.categories>>]
    ELSE Safe

\* The strings chat returns instead of the model's output (without the mark
\* they start with).
CannotProcess(error_msg) == <<"I cannot process that request. ">> \o error_msg

ResponseBlocked(error_msg) == <<"Response was blocked by safety guardrails. ">> \o error_msg

ErrorReply(e) == <<"Error: ">> \o e

\* Faulty variant of ChatAgentChat: the user message is appended and Mercury
\* asked before the input check is looked at.
ChatAgentChatCheckingLate(history, user_input, input_moderation, completion, output_moderation) ==
    LET input_check == check_input_safety(input_moderation)
        with_user == Append(history, ChatMessage("user", Text(user_input)))
        output == completion.content
        output_check == check_output_safety(output_moderation)
    IN  IF completion.raises
          THEN [messages |-> with_user, response |-> ErrorReply(completion.content),
                raised |-> FALSE, asked |-> <<"moderations", "mercury">>]
        ELSE IF ~input_check.is_safe
          THEN [messages |-> with_user, response |-> CannotProcess(input_check.error_msg),
                raised |-> FALSE, asked |-> <<"moderations", "mercury">>]
        ELSE IF ~output_check.is_safe
          THEN [messages |-> with_user, response |-> ResponseBlocked(output_check.error_msg),
                raised |-> FALSE, asked |-> <<"moderations", "mercury", "moderations">>]
        ELSE [messages |-> Append(with_user, ChatMessage("assistant", output)),
              response |-> output,
              raised |-> FALSE, asked |-> <<"moderations", "mercury", "moderations">>]

\* Faulty variant of ChatAgentChat: the output is stored before it is checked.
ChatAgentChatStoringFirst(history, user_input, input_moderation, completion, output_moderation) ==
    LET input_check == check_input_safety(input_moderation)
        with_user == Append(history, ChatMessage("user", Text(user_input)))
        output == completion.content
        output_check == check_output_safety(output_moderation)
        with_output == Append(with_user, ChatMessage("assistant", output))
    IN  IF ~input_check.is_safe
          THEN [messages |-> history, response |-> CannotProcess(input_check.error_msg),
                raised |-> FALSE, asked |-> <<"moderations">>]
        ELSE IF completion.raises
          THEN [messages |-> with_user, response |-> ErrorReply(completion.content),
                raised |-> FALSE, asked |-> <<"moderations", "mercury">>]
        ELSE IF ~output_check.is_safe
          THEN [messages |-> with_output, response |-> ResponseBlocked(output_check.error_msg),
                raised |-> FALSE, asked |-> <<"moderations", "mercury", "moderations">>]
        ELSE [messages |-> with_output, response |-> output,
              raised |-> FALSE, asked |-> <<"moderations", "mercury", "moderations">>]

\* Faulty variant of ChatAgentChat: the failure of the Mercury request is
\* not caught.
ChatAgentChatNoCatch(history, user_input, input_moderation, completion, output_moderation) ==
    LET input_check == check_input_safety(input_moderation)
        with_user == Append(history, ChatMessage("user", Text(user_input)))
        output == completion.content
        output_check == check_output_safety(output_moderation)
    IN  IF ~input_check.is_safe
          THEN [messages |-> history, response |-> CannotProcess(input_check.error_msg),
                raised |-> FALSE, asked |-> <<"moderations">>]
        ELSE IF completion.raises
          THEN [messages |-> with_user, response |-> None,
                raised |-> TRUE, asked |-> <<"moderations", "mercury">>]
        ELSE IF ~output_check.is_safe
          THEN [messages |-> with_user, response |-> ResponseBlocked(output_check.error_msg),
                raised |-> FALSE, asked |-> <<"moderations", "mercury", "moderations">>]
        ELSE [messages |-> Append(with_user, ChatMessage("assistant", output)),
              response |-> output,
              raised |-> FALSE, asked |-> <<"moderations", "mercury", "moderations">>]

\* ChatAgent.chat on the transcript `history`: the transcript it leaves, the
\* value it returns, whether an exception leaves it (none does: every
\* request is inside a try whose except returns), and the remote requests it
\* made, in order.
ChatAgentChat(history, user_input, input_moderation, completion, output_moderation) ==
    LET input_check == check_input_safety(input_moderation)
        with_user == Append(history, ChatMessage("user", Text(user_input)))
        output == completion.content
        output_check == check_output_safety(output_moderation)
    IN  IF ~input_check.is_safe
          THEN [messages |-> history, response |-> CannotProcess(input_check.error_msg),
                raised |-> FALSE, asked |-> <<"moderations">>]
        ELSE IF completion.raises
          THEN [messages |-> with_user, response |-> ErrorReply(completion.content),
                raised |-> FALSE, asked |-> <<"moderations", "mercury">>]
        ELSE IF ~output_check.is_safe
          THEN [messages |-> with_user, response |-> ResponseBlocked(output_check.error_msg),
                raised |-> FALSE, asked |-> <<"moderations", "mercury", "moderations">>]
        ELSE [messages |-> Append(with_user, ChatMessage("assistant", output)),
              response |-> output,
              raised |-> FALSE, asked |-> <<"moderations", "mercury", "moderations">>]

\* The record of a call on the ChatAgent: the method, its argument, what the
\* services did in the requests the call made, and the transcript before it.
Turn(op, user_input, input_moderation, completion, output_moderation, before) ==
    [op |-> op, user_input |-> user_input, input_moderation |-> input_moderation,
     completion |-> completion, output_moderation |-> output_moderation, before |-> before]

NoTurn == Turn("__init__", "", NotAsked, NotCompleted, NotAsked, << >>)

\* ChatAgent.__init__
NewChatAgent ==
    /\ messages = <<ChatAgentSystemMessage>>
    /\ response = None
    /\ turn = NoTurn

\* A service answers (or fails) exactly the requests the call made: the
\* stand-ins mark the requests that were not made.
Answered(asked, input_moderation, completion, output_moderation) ==
    /\ input_moderation # NotAsked
    /\ completion # NotCompleted <=> Len(asked) >= 2
    /\ output_moderation # NotAsked <=> Len(asked) >= 3

\* One call of ChatAgent.chat.
chat(user_input, input_moderation, completion, output_moderation) ==
    /\ program = "interactive_agent"
    /\ Len(messages) < 1 + 2 * MaxTurns
    /\ LET r == ChatAgentChat(messages, user_input, input_moderation, completion, output_moderation)
       IN  /\ Answered(r.asked, input_moderation, completion, output_moderation)
           /\ messages' = r.messages
           /\ response' = r.response
    /\ turn' = Turn("chat", user_input, input_moderation, completion, output_moderation, messages)
    /\ UNCHANGED <<agent, locals, program, main_loop, guardrails>>

\* The system message reset_conversation writes: a literal of its own.
ResetSystemMessage ==
    ChatMessage("system", Text("You are a helpful, friendly assistant. Be concise but informative."))

\* Faulty variant of ChatAgentReset: the newest message survives the reset.
ChatAgentResetKeepingNewest ==
    /\ program = "interactive_agent"
    /\ messages' = <<ResetSystemMessage, messages[Len(messages)]>>
    /\ turn' = Turn("reset_conversation", "", NotAsked, NotCompleted, NotAsked, messages)
    /\ UNCHANGED <<agent, locals, program, response, main_loop, guardrails>>

\* ChatAgent.reset_conversation
ChatAgentReset ==
    /\ program = "interactive_agent"
    /\ messages' = <<ResetSystemMessage>>
    /\ turn' = Turn("reset_conversation", "", NotAsked, NotCompleted, NotAsked, messages)
    /\ UNCHANGED <<agent, locals, program, response, main_loop, guardrails>>

(* ----------------------- interactive_agent.py: main -------------------- *)

\* What the user types is a sequence of characters, so that strip() and
\* lower() are computed on it.
UpperCase ==
    <<"A", "B", "C", "D", "E", "F", "G", "H", "I", "J", "K", "L", "M",
      "N", "O", "P", "Q", "R", "S", "T", "U", "V", "W", "X", "Y", "Z">>

LowerCase ==
    <<"a", "b", "c", "d", "e", "f", "g", "h", "i", "j", "k", "l", "m",
      "n", "o", "p", "q", "r", "s", "t", "u", "v", "w", "x", "y", "z">>

IsSpace(ch) == ch \in {" ", "\t"}

\* str.strip(): leading and trailing whitespace removed.
strip(text) ==
    LET kept == { i \in 1 .. Len(text) : ~IsSpace(text[i]) }
    IN  IF kept = {} THEN << >>
        ELSE SubSeq(text, CHOOSE i \in kept : \A j \in kept : i <= j,
                          CHOOSE i \in kept : \A j \in kept : j <= i)

Characters ==
    { UpperCase[n] : n \in 1 .. Len(UpperCase) } \cup { LowerCase[n] : n \in 1 .. Len(LowerCase) }
        \cup {" ", "\t"}

\* The lower-case form of a character: of a capital letter the small one,
\* of anything else the character itself.
LowerOf ==
    [ch \in Characters |->
        IF \E n \in 1 .. Len(UpperCase) : UpperCase[n] = ch
          THEN LowerCase[CHOOSE n \in 1 .. Len(UpperCase) : UpperCase[n] = ch]
          ELSE ch]

\* str.lower()
lower(text) == [i \in 1 .. Len(text) |-> LowerOf[text[i]]]

\* The lines typed at the prompt.
Lines ==
    { << >>, <<" ">>,
      <<"q", "u", "i", "t">>, <<"E", "X", "I", "T">>, <<" ", "Q", "u", "i", "t", " ">>,
      <<"c", "l", "e", "a", "r">>, <<"C", "l", "e", "a", "r">>,
      <<"h", "e", "l", "p">>, <<"H", "E", "L", "P", " ">>,
      <<"h", "i">>, <<"q", "u", "i", "t", " ", "i", "t">> }

\* Faulty variant of Command: the comparison is made on the input as typed.
CommandAsTyped(user_input) ==
    IF user_input = << >> THEN "empty"
    ELSE IF user_input \in {<<"q", "u", "i", "t">>, <<"e", "x", "i", "t">>} THEN "quit"
    ELSE IF user_input = <<"c", "l", "e", "a", "r">> THEN "clear"
    ELSE IF user_input = <<"h", "e", "l", "p">> THEN "help"
    ELSE "chat"

\* The branch the loop body takes for the stripped input.
Command(user_input) ==
    IF user_input = << >> THEN "empty"
    ELSE IF lower(user_input) \in {<<"q", "u", "i", "t">>, <<"e", "x", "i", "t">>} THEN "quit"
    ELSE IF lower(user_input) = <<"c", "l", "e", "a", "r">> THEN "clear"
    ELSE IF lower(user_input) = <<"h", "e", "l", "p">> THEN "help"
    ELSE "chat"

\* user_input = input("You: ").strip(), and the branch taken for it, for
\* every line that may be typed.
InputOf == [line \in Lines |-> strip(line)]

CommandOf == [line \in Lines |-> Command(InputOf[line])]

\* What the loop prints.
Goodbye == <<"Goodbye!">>

Welcome == <<"Interactive Chat Agent", "Commands:">>

UnexpectedError(e) == <<"Unexpected error: ", e>>

\* The record of one pass of the loop: the line typed, the branch taken,
\* the calls of ChatAgent.chat and the remote requests the pass made, the
\* transcript before the pass and what the pass printed last.
MainPassRecord(line, command, chat_calls, remote_requests, before, shown) ==
    [line |-> line, command |-> command, chat_calls |-> chat_calls,
     remote_requests |-> remote_requests, before |-> before, shown |-> shown]

\* main up to the loop: the agent is created and the welcome text printed.
MainLoopStart ==
    /\ session = "running"
    /\ main_pass = MainPassRecord(<< >>, "none", 0, 0, << >>, Welcome)

\* One pass of `while True`: a line is read and stripped, a command is
\* carried out, any other input goes to agent.chat and the reply is printed.
MainPass(line, input_moderation, completion, output_moderation) ==
    /\ program = "interactive_agent"
    /\ session = "running"
    /\ input_moderation = NotAsked => (completion = NotCompleted /\ output_moderation = NotAsked)
    /\ LET user_input == InputOf[line]
           command == CommandOf[line]
           r == ChatAgentChat(messages, user_input, input_moderation, completion,
                              output_moderation)
       IN  IF command = "chat"
             THEN /\ Len(messages) < 1 + 2 * MaxTurns
                  /\ Answered(r.asked, input_moderation, completion, output_moderation)
                  /\ messages' = r.messages
                  /\ response' = IF r.raised THEN response ELSE r.response
                  /\ turn' = Turn("chat", user_input, input_moderation, completion,
                                  output_moderation, messages)
                  /\ session' = session
                  /\ main_pass' =
                         MainPassRecord(line, command, 1, Len(r.asked), messages,
                                        IF r.raised THEN UnexpectedError("Exception")
                                        ELSE r.response)
             ELSE /\ input_moderation = NotAsked
                  /\ completion = NotCompleted
                  /\ output_moderation = NotAsked
                  /\ messages' = IF command = "clear" THEN <<ResetSystemMessage>> ELSE messages
                  /\ turn' = IF command = "clear"
                               THEN Turn("reset_conversation", "", NotAsked, NotCompleted,
                                         NotAsked, messages)
                               ELSE turn
                  /\ session' = IF command = "quit" THEN "ended" ELSE session
                  /\ main_pass' =
                         MainPassRecord(line, command, 0, 0, messages,
                                        IF command = "quit" THEN Goodbye
                                        ELSE IF command = "help" THEN Welcome
                                        ELSE IF command = "clear" THEN <<"Conversation history cleared.">>
                                        ELSE main_pass.shown)
                  /\ UNCHANGED response
    /\ UNCHANGED <<agent, locals, program, guardrails>>

\* input() raises KeyboardInterrupt: the loop ends.
Interrupted ==
    /\ program = "interactive_agent"
    /\ session = "running"
    /\ session' = "ended"
    /\ main_pass' = MainPassRecord(<< >>, "KeyboardInterrupt", 0, 0, messages, Goodbye)
    /\ UNCHANGED <<agent, locals, program, messages, response, turn, guardrails>>

\* input() raises something else (the input stream is closed): the error is
\* printed and the loop goes on.
InputFails ==
    /\ program = "interactive_agent"
    /\ session = "running"
    /\ main_pass' = MainPassRecord(<< >>, "Exception", 0, 0, messages, UnexpectedError("EOFError"))
    /\ UNCHANGED <<agent, locals, program, messages, response, turn, session, guardrails>>

(* ----------------------- agent_with_guardrails.py ---------------------- *)

\* The result of a validate call: the exception that leaves it, or the
\* string it returns.
Returns(value) == [raised |-> FALSE, exc |-> "none", value |-> value]

Raises(e) == [raised |-> TRUE, exc |-> e, value |-> None]

\* The try block of OpenAIContentSafetyGuardrail.validate: the moderation
\* request, `raise ValueError` for a flagged input, `return input_str`.
ContentSafetyTry(input_str, moderation) ==
    IF moderation.raises THEN Raises("APIError")
    ELSE IF moderation.flagged THEN Raises("ValueError")
    ELSE Returns(input_str)

\* OpenAIContentSafetyGuardrail.validate: `except Exception` encloses the
\* whole try block, the raise of ValueError included, and returns input_str.
ContentSafetyValidate(input_str, moderation) ==
    LET attempt == ContentSafetyTry(input_str, moderation)
    IN  IF attempt.raised THEN Returns(input_str) ELSE attempt

BlockedByGuardrails(categories) ==
    <<"[Response blocked by guardrails due to: ", categories, "]">>

FlaggedForReview(output) == output \o <<"[Note: Response quality flagged for review]">>

\* validation_result.startswith("NO")
StartsWithNO(text) == text \in {"NO", "NO: vague"}

\* The try block of OpenAIResponseValidationGuardrail.validate.
ResponseValidationTry(output, moderation, validation) ==
    IF moderation.raises THEN Raises("APIError")
    ELSE IF moderation.flagged THEN Returns(BlockedByGuardrails(moderation.categories))
    ELSE IF validation.raises THEN Raises("APIError")
    ELSE IF StartsWithNO(validation.text) THEN Returns(FlaggedForReview(output))
    ELSE Returns(output)

\* OpenAIResponseValidationGuardrail.validate: except Exception -> output.
ResponseValidationValidate(output, moderation, validation) ==
    LET attempt == ResponseValidationTry(output, moderation, validation)
    IN  IF attempt.raised THEN Returns(output) ELSE attempt

\* The queries of the three example functions.
BasicQueries ==
    <<"What is the capital of France?", "How do I make a bomb?",
      "Tell me about Python programming.">>

ConversationalQueries ==
    <<"I'm learning Python. Can you help me?", "What's a good first project?",
      "Can you write me malware code?">>

TestCases ==
    <<"What's the weather like today?", "How can I hack into someone's account?",
      "Explain how encryption works">>

Queries(fn) ==
    IF fn = "basic_agent_with_guardrails" THEN BasicQueries
    ELSE IF fn = "conversational_agent_with_guardrails" THEN ConversationalQueries
    ELSE TestCases

\* __main__ runs the three example functions one after the other.
Following(fn) ==
    IF fn = "basic_agent_with_guardrails" THEN "conversational_agent_with_guardrails"
    ELSE IF fn = "conversational_agent_with_guardrails" THEN "demonstrate_guardrails"
    ELSE "done"

BlockedLine == <<"Input blocked">>

PassedLine == <<"Passed guardrails">>

\* The record of one pass of a for loop: the function, the query, what the
\* services did in the requests the pass made, what validate gave back for
\* the query, whether `continue` skipped the query, the messages sent to the
\* Mercury model (empty when no request was made), the output of the model
\* and the line printed for the pass.
Pass(fn, query, moderation, validated, skipped, request, completion, output_moderation, validation, printed) ==
    [fn |-> fn, query |-> query, moderation |-> moderation, validated |-> validated,
     skipped |-> skipped, request |-> request, completion |-> completion,
     output_moderation |-> output_moderation, validation |-> validation,
     printed |-> printed]

NoPass ==
    Pass("none", Text(""), NotAsked, Returns(None), FALSE, << >>, NotCompleted,
         NotAsked, NotValidated, None)

\* The start of agent_with_guardrails.py's __main__.
MainStart ==
    /\ example = "basic_agent_with_guardrails"
    /\ query_i = 0
    /\ conv_messages = <<ChatMessage("system", Text("You are a helpful coding assistant."))>>
    /\ last_pass = NoPass

\* The end of a pass: the next query, or the next example function.
NextQuery ==
    IF query_i + 1 < Len(Queries(example))
      THEN example' = example /\ query_i' = query_i + 1
      ELSE example' = Following(example) /\ query_i' = 0

\* The requests of a pass made after the input guardrail: none for a skipped
\* query, no output check for a completion that raised, and no validation
\* request unless the output moderation answered "not flagged".
RequestsMade(skipped, completion, output_moderation, validation) ==
    /\ completion = NotCompleted <=> skipped
    /\ output_moderation = NotAsked <=> (completion = NotCompleted \/ completion.raises)
    /\ validation = NotValidated <=> output_moderation # Unflagged

\* What the output guardrail gives back for the pass, or the error line.
Printed(completion, output_moderation, validation) ==
    IF completion.raises THEN ErrorReply(completion.content)
    ELSE ResponseValidationValidate(completion.content, output_moderation, validation).value

\* One pass of the for loop of basic_agent_with_guardrails.
BasicPass(moderation, completion, output_moderation, validation) ==
    /\ program = "agent_with_guardrails"
    /\ example = "basic_agent_with_guardrails"
    /\ LET query == Text(BasicQueries[query_i + 1])
           validated == ContentSafetyValidate(query, moderation)
           skipped == validated.raised /\ validated.exc = "ValueError"
           request == IF skipped THEN << >>
                      ELSE <<ChatMessage("system", Text("You are a helpful assistant.")),
                             ChatMessage("user", validated.value)>>
       IN  /\ ~validated.raised \/ skipped
           /\ RequestsMade(skipped, completion, output_moderation, validation)
           /\ last_pass' =
                  Pass(example, query, moderation, validated, skipped, request, completion,
                       output_moderation, validation,
                       IF skipped THEN BlockedLine
                       ELSE Printed(completion, output_moderation, validation))
    /\ NextQuery
    /\ UNCHANGED <<agent, locals, program, interactive, conv_messages>>

\* Faulty variant of ConversationalPass: the output is appended as the output
\* guardrail gave it back.
ConversationalPassStoringValidated(moderation, completion, output_moderation, validation) ==
    /\ program = "agent_with_guardrails"
    /\ example = "conversational_agent_with_guardrails"
    /\ LET query == Text(ConversationalQueries[query_i + 1])
           validated == ContentSafetyValidate(query, moderation)
           skipped == validated.raised /\ validated.exc = "ValueError"
           with_user == Append(conv_messages, ChatMessage("user", validated.value))
           request == IF skipped THEN << >> ELSE with_user
       IN  /\ ~validated.raised \/ skipped
           /\ RequestsMade(skipped, completion, output_moderation, validation)
           /\ conv_messages' =
                  IF skipped THEN conv_messages
                  ELSE IF completion.raises THEN with_user
                  ELSE Append(with_user,
                              ChatMessage("assistant",
                                          Printed(completion, output_moderation, validation)))
           /\ last_pass' =
                  Pass(example, query, moderation, validated, skipped, request, completion,
                       output_moderation, validation,
                       IF skipped THEN BlockedLine
                       ELSE Printed(completion, output_moderation, validation))
    /\ NextQuery
    /\ UNCHANGED <<agent, locals, program, interactive>>

\* One pass of the for loop of conversational_agent_with_guardrails.
ConversationalPass(moderation, completion, output_moderation, validation) ==
    /\ program = "agent_with_guardrails"
    /\ example = "conversational_agent_with_guardrails"
    /\ LET query == Text(ConversationalQueries[query_i + 1])
           validated == ContentSafetyValidate(query, moderation)
           skipped == validated.raised /\ validated.exc = "ValueError"
           with_user == Append(conv_messages, ChatMessage("user", validated.value))
           request == IF skipped THEN << >> ELSE with_user
       IN  /\ ~validated.raised \/ skipped
           /\ RequestsMade(skipped, completion, output_moderation, validation)
           /\ conv_messages' =
                  IF skipped THEN conv_messages
                  ELSE IF completion.raises THEN with_user
                  ELSE Append(with_user, ChatMessage("assistant", completion.content))
           /\ last_pass' =
                  Pass(example, query, moderation, validated, skipped, request, completion,
                       output_moderation, validation,
                       IF skipped THEN BlockedLine
                       ELSE Printed(completion, output_moderation, validation))
    /\ NextQuery
    /\ UNCHANGED <<agent, locals, program, interactive>>

\* One pass of the for loop of demonstrate_guardrails.
DemonstratePass(moderation) ==
    /\ program = "agent_with_guardrails"
    /\ example = "demonstrate_guardrails"
    /\ LET query == Text(TestCases[query_i + 1])
           validated == ContentSafetyValidate(query, moderation)
           skipped == validated.raised /\ validated.exc = "ValueError"
       IN  /\ ~validated.raised \/ skipped
           /\ last_pass' =
                  Pass(example, query, moderation, validated, skipped, << >>, NotCompleted,
                       NotAsked, NotValidated, IF skipped THEN BlockedLine ELSE PassedLine)
    /\ NextQuery
    /\ UNCHANGED <<agent, locals, program, interactive, conv_messages>>

(* ------------------------------ initial state -------------------------- *)

Programs == {"interactive_agent", "agent_with_guardrails"}

Init ==
    /\ program = "inception_agent"
    /\ NewInceptionAgent
    /\ NewChatAgent
    /\ MainLoopStart
    /\ MainStart

\* One of the two scripts with moderation is started.
InitModerated ==
    /\ program \in Programs
    /\ NewInceptionAgent
    /\ NewChatAgent
    /\ MainLoopStart
    /\ MainStart

(* ----------------------------- add_tool -------------------------------- *)

ToolDefinition(name, description, parameters) ==
    [type |-> "function",
     function |-> [name |-> name, description |-> description, parameters |-> parameters]]

\* self.tool_functions[name] = function
Register(functions, name, function) ==
    [n \in (DOMAIN functions) \cup {name} |-> IF n = name THEN function ELSE functions[n]]

\* Each registration passes a callable of its own: the k-th add_tool call
\* registers callable k.  Tools are registered while a chat call can still
\* follow (the transcript is short enough for ChatStart).
add_tool(name) ==
    /\ program = "inception_agent"
    /\ \A c \in Callers : pc[c] \in Idle
    /\ Len(tools) < MaxTools
    /\ Len(conversation_history) <= MaxStartLen
    /\ tools' = Append(tools, ToolDefinition(name, "description", "schema"))
    /\ tool_functions' = Register(tool_functions, name, Len(tools) + 1)
    /\ MoveOn
    /\ last_op' = "add_tool"
    /\ UNCHANGED conversation_history
    /\ UNCHANGED moderated

(* ------------------------- execute_tool_call --------------------------- *)

\* Faulty variant of ExecuteToolCall: the call of the registered function is not
\* wrapped in try/except, so what the callable raises leaves execute_tool_call.
ExecuteToolCallNoCatch(tool_call, functions, outcome) ==
    LET function_name == tool_call.name
        function_args == JsonLoads(tool_call.arguments)
    IN  IF ~function_args.ok
          THEN [raised |-> TRUE, exc |-> function_args.value, content |-> None, called |-> << >>]
        ELSE IF function_name \notin DOMAIN functions
          THEN [raised |-> FALSE, exc |-> "none", content |-> NotFound(function_name), called |-> << >>]
        ELSE IF outcome.raises
          THEN [raised |-> TRUE, exc |-> outcome.value, content |-> None, called |-> << >>]
        ELSE [raised |-> FALSE, exc |-> "none", content |-> JsonDumps(outcome.value),
              called |-> <<functions[function_name]>>]

\* Faulty variant of ExecuteToolCall: the name is looked up before the
\* arguments are parsed.
ExecuteToolCallLookupFirst(tool_call, functions, outcome) ==
    LET function_name == tool_call.name
        function_args == JsonLoads(tool_call.arguments)
    IN  IF function_name \notin DOMAIN functions
          THEN [raised |-> FALSE, exc |-> "none", content |-> NotFound(function_name), called |-> << >>]
        ELSE IF ~function_args.ok
          THEN [raised |-> TRUE, exc |-> function_args.value, content |-> None, called |-> << >>]
        ELSE IF outcome.raises
          THEN [raised |-> FALSE, exc |-> "none",
                content |-> ErrorExecuting(function_name, outcome.value),
                called |-> <<functions[function_name]>>]
        ELSE [raised |-> FALSE, exc |-> "none", content |-> JsonDumps(outcome.value),
              called |-> <<functions[function_name]>>]

\* The result of execute_tool_call: the exception it raises, or the string it
\* returns, and the callables it invoked on the way.
ExecuteToolCall(tool_call, functions, outcome) ==
    LET function_name == tool_call.name
        function_args == JsonLoads(tool_call.arguments)
    IN  IF ~function_args.ok
          THEN [raised |-> TRUE, exc |-> function_args.value, content |-> None, called |-> << >>]
        ELSE IF function_name \notin DOMAIN functions
          THEN [raised |-> FALSE, exc |-> "none", content |-> NotFound(function_name), called |-> << >>]
        ELSE IF outcome.raises
          THEN [raised |-> FALSE, exc |-> "none",
                content |-> ErrorExecuting(function_name, outcome.value),
                called |-> <<functions[function_name]>>]
        ELSE [raised |-> FALSE, exc |-> "none", content |-> JsonDumps(outcome.value),
              called |-> <<functions[function_name]>>]

(* -------------------------------- chat --------------------------------- *)

\* Faulty variant of AppendUserMessage: the user message is inserted at the front.
PrependUserMessage(history, user_message) == <<UserMessage(user_message)>> \o history

\* Faulty variant of AppendUserMessage: the messages of earlier chat calls are
\* dropped when a new call starts.
RestartWithUserMessage(history, user_message) == <<history[1], UserMessage(user_message)>>

AppendUserMessage(history, user_message) == Append(history, UserMessage(user_message))

\* Faulty variant of LoopContinues: the body runs once before the test applies.
LoopContinuesAfterFirst(it, max_it) == it = 0 \/ it < max_it

\* Faulty variant of LoopContinues: the loop test is off by one.
LoopContinuesInclusive(it, max_it) == it <= max_it

\* while iteration < max_iterations
LoopContinues(it, max_it) == it < max_it

\* Faulty variant of Payload: only the newest message is sent.
PayloadNewestOnly(history, defs) ==
    [sent |-> TRUE, model |-> Model, messages |-> SubSeq(history, Len(history), Len(history)),
     has_tools |-> Len(defs) > 0, tools |-> defs]

\* The request create_completion posts: "tools" only when the list is not empty.
Payload(history, defs) ==
    [sent |-> TRUE, model |-> Model, messages |-> history,
     has_tools |-> Len(defs) > 0, tools |-> defs]

\* Faulty variant of ForLoop: the loop body runs for the first entry only.
ForLoopFirstOnly(tool_calls, i) == IF i <= 1 /\ i <= Len(tool_calls) THEN "tools" ELSE "loop"

\* for tool_call in tool_calls: the body runs for entry i if there is one,
\* otherwise `continue` goes back to the while test.
ForLoop(tool_calls, i) == IF i <= Len(tool_calls) THEN "tools" ELSE "loop"

\* chat is called: the user message is appended and the loop is entered.
ChatStart(c, user_message, max_it) ==
    /\ program = "inception_agent"
    /\ pc[c] \in Idle
    /\ Len(conversation_history) <= MaxStartLen
    /\ conversation_history' = AppendUserMessage(conversation_history, user_message)
    /\ pc' = [pc EXCEPT ![c] = "loop"]
    /\ iteration' = [iteration EXCEPT ![c] = 0]
    /\ max_iterations' = [max_iterations EXCEPT ![c] = max_it]
    /\ pending' = [pending EXCEPT ![c] = << >>]
    /\ idx' = [idx EXCEPT ![c] = 0]
    /\ result' = [result EXCEPT ![c] = None]
    /\ exc' = [exc EXCEPT ![c] = "none"]
    /\ payload' = [payload EXCEPT ![c] = NoPayload]
    /\ requests' = [requests EXCEPT ![c] = 0]
    /\ invoked' = [invoked EXCEPT ![c] = 0]
    /\ last_callable' = [last_callable EXCEPT ![c] = NoCallable]
    /\ start_len' = [start_len EXCEPT ![c] = Len(conversation_history)]
    /\ last_op' = "chat"
    /\ UNCHANGED <<tools, tool_functions>>
    /\ UNCHANGED moderated

\* Faulty variant of SendRequest: the request is posted without counting the
\* iteration.
SendRequestUncounted(c) ==
    /\ program = "inception_agent"
    /\ pc[c] = "loop"
    /\ LoopContinues(iteration[c], max_iterations[c])
    /\ payload' = [payload EXCEPT ![c] = Payload(conversation_history, tools)]
    /\ requests' = [requests EXCEPT ![c] = @ + 1]
    /\ pc' = [pc EXCEPT ![c] = "await"]
    /\ UNCHANGED <<agent, iteration, max_iterations, pending, idx, result, exc, invoked,
                   last_callable, start_len, last_op>>
    /\ UNCHANGED moderated

\* The loop test passes: iteration is incremented and the request is posted.
SendRequest(c) ==
    /\ program = "inception_agent"
    /\ pc[c] = "loop"
    /\ LoopContinues(iteration[c], max_iterations[c])
    /\ iteration' = [iteration EXCEPT ![c] = @ + 1]
    /\ payload' = [payload EXCEPT ![c] = Payload(conversation_history, tools)]
    /\ requests' = [requests EXCEPT ![c] = @ + 1]
    /\ pc' = [pc EXCEPT ![c] = "await"]
    /\ UNCHANGED <<agent, max_iterations, pending, idx, result, exc, invoked, last_callable, start_len, last_op>>
    /\ UNCHANGED moderated

\* Faulty variant of ReturnSentinel: the sentinel is also appended to the transcript
\* as an assistant message.
ReturnSentinelAppended(c) ==
    /\ program = "inception_agent"
    /\ pc[c] = "loop"
    /\ ~LoopContinues(iteration[c], max_iterations[c])
    /\ conversation_history' =
           Append(conversation_history, Message("assistant", Sentinel, FALSE, << >>, NoId))
    /\ result' = [result EXCEPT ![c] = Sentinel]
    /\ pc' = [pc EXCEPT ![c] = "returned"]
    /\ iteration' = [iteration EXCEPT ![c] = 0]
    /\ pending' = [pending EXCEPT ![c] = << >>]
    /\ idx' = [idx EXCEPT ![c] = 0]
    /\ UNCHANGED <<tools, tool_functions, max_iterations, exc, payload,
                   requests, invoked, last_callable, start_len, last_op>>
    /\ UNCHANGED moderated

\* The loop test fails: chat returns the sentinel.
ReturnSentinel(c) ==
    /\ program = "inception_agent"
    /\ pc[c] = "loop"
    /\ ~LoopContinues(iteration[c], max_iterations[c])
    /\ result' = [result EXCEPT ![c] = Sentinel]
    /\ pc' = [pc EXCEPT ![c] = "returned"]
    /\ iteration' = [iteration EXCEPT ![c] = 0]
    /\ pending' = [pending EXCEPT ![c] = << >>]
    /\ idx' = [idx EXCEPT ![c] = 0]
    /\ UNCHANGED <<agent, max_iterations, exc, payload,
                   requests, invoked, last_callable, start_len, last_op>>
    /\ UNCHANGED moderated

\* Faulty variant of CompletionFails: the failure is swallowed and the loop
\* tries again.
CompletionFailsRetried(c) ==
    /\ program = "inception_agent"
    /\ pc[c] = "await"
    /\ pc' = [pc EXCEPT ![c] = "loop"]
    /\ payload' = [payload EXCEPT ![c] = NoPayload]
    /\ UNCHANGED <<agent, iteration, max_iterations, pending, idx, result, exc,
                   requests, invoked, last_callable, start_len, last_op>>
    /\ UNCHANGED moderated

\* Faulty variant of CompletionFails: the messages the call appended are
\* taken back before the exception leaves chat.
CompletionFailsRolledBack(c) ==
    /\ program = "inception_agent"
    /\ pc[c] = "await"
    /\ conversation_history' = SubSeq(conversation_history, 1, start_len[c])
    /\ exc' = [exc EXCEPT ![c] = "Inception Labs API error"]
    /\ pc' = [pc EXCEPT ![c] = "raised"]
    /\ payload' = [payload EXCEPT ![c] = NoPayload]
    /\ iteration' = [iteration EXCEPT ![c] = 0]
    /\ pending' = [pending EXCEPT ![c] = << >>]
    /\ idx' = [idx EXCEPT ![c] = 0]
    /\ UNCHANGED <<tools, tool_functions, max_iterations, result,
                   requests, invoked, last_callable, start_len, last_op>>
    /\ UNCHANGED moderated

\* create_completion raises (transport failure or an HTTP error status): the
\* exception leaves chat.
CompletionFails(c) ==
    /\ program = "inception_agent"
    /\ pc[c] = "await"
    /\ exc' = [exc EXCEPT ![c] = "Inception Labs API error"]
    /\ pc' = [pc EXCEPT ![c] = "raised"]
    /\ payload' = [payload EXCEPT ![c] = NoPayload]
    /\ iteration' = [iteration EXCEPT ![c] = 0]
    /\ pending' = [pending EXCEPT ![c] = << >>]
    /\ idx' = [idx EXCEPT ![c] = 0]
    /\ UNCHANGED <<agent, max_iterations, result,
                   requests, invoked, last_callable, start_len, last_op>>
    /\ UNCHANGED moderated

\* Faulty variant of CompletionReturns: a response without content is not appended.
CompletionReturnsContentOnly(c, assistant_message) ==
    /\ program = "inception_agent"
    /\ pc[c] = "await"
    /\ conversation_history' =
           IF assistant_message.content = None THEN conversation_history
           ELSE Append(conversation_history, assistant_message)
    /\ payload' = [payload EXCEPT ![c] = NoPayload]
    /\ IF HasToolCalls(assistant_message)
         THEN /\ pending' = [pending EXCEPT ![c] = assistant_message.tool_calls]
              /\ idx' = [idx EXCEPT ![c] = 1]
              /\ pc' = [pc EXCEPT ![c] = ForLoop(assistant_message.tool_calls, 1)]
              /\ UNCHANGED <<result, iteration>>
         ELSE /\ result' = [result EXCEPT ![c] = assistant_message.content]
              /\ pc' = [pc EXCEPT ![c] = "returned"]
              /\ iteration' = [iteration EXCEPT ![c] = 0]
              /\ pending' = [pending EXCEPT ![c] = << >>]
              /\ idx' = [idx EXCEPT ![c] = 0]
    /\ UNCHANGED <<tools, tool_functions, max_iterations, exc,
                   requests, invoked, last_callable, start_len, last_op>>
    /\ UNCHANGED moderated

\* create_completion returns: the message is appended, and chat either enters
\* the for loop over its tool calls or returns its content.
CompletionReturns(c, assistant_message) ==
    /\ program = "inception_agent"
    /\ pc[c] = "await"
    /\ conversation_history' = Append(conversation_history, assistant_message)
    /\ payload' = [payload EXCEPT ![c] = NoPayload]
    /\ IF HasToolCalls(assistant_message)
         THEN /\ pending' = [pending EXCEPT ![c] = assistant_message.tool_calls]
              /\ idx' = [idx EXCEPT ![c] = 1]
              /\ pc' = [pc EXCEPT ![c] = ForLoop(assistant_message.tool_calls, 1)]
              /\ UNCHANGED <<result, iteration>>
         ELSE /\ result' = [result EXCEPT ![c] = assistant_message.content]
              /\ pc' = [pc EXCEPT ![c] = "returned"]
              /\ iteration' = [iteration EXCEPT ![c] = 0]
              /\ pending' = [pending EXCEPT ![c] = << >>]
              /\ idx' = [idx EXCEPT ![c] = 0]
    /\ UNCHANGED <<tools, tool_functions, max_iterations, exc,
                   requests, invoked, last_callable, start_len, last_op>>
    /\ UNCHANGED moderated

\* Faulty variant of ToolCallStep: the for loop walks the list from its end.
ToolCallStepReversed(c, outcome) ==
    /\ program = "inception_agent"
    /\ pc[c] = "tools"
    /\ LET tool_call == pending[c][Len(pending[c]) + 1 - idx[c]]
           r == ExecuteToolCall(tool_call, tool_functions, outcome)
       IN  IF r.raised
             THEN /\ exc' = [exc EXCEPT ![c] = r.exc]
                  /\ pc' = [pc EXCEPT ![c] = "raised"]
                  /\ pending' = [pending EXCEPT ![c] = << >>]
                  /\ idx' = [idx EXCEPT ![c] = 0]
                  /\ iteration' = [iteration EXCEPT ![c] = 0]
                  /\ UNCHANGED <<conversation_history, invoked, last_callable>>
             ELSE /\ conversation_history' =
                        Append(conversation_history, ToolMessage(tool_call.id, r.content))
                  /\ invoked' = [invoked EXCEPT ![c] = @ + Len(r.called)]
                  /\ last_callable' = [last_callable EXCEPT ![c] =
                                            IF r.called = << >> THEN @ ELSE r.called[Len(r.called)]]
                  /\ UNCHANGED <<pending, iteration>>
                  /\ idx' = [idx EXCEPT ![c] = @ + 1]
                  /\ pc' = [pc EXCEPT ![c] = ForLoop(pending[c], idx[c] + 1)]
                  /\ UNCHANGED exc
    /\ UNCHANGED <<tools, tool_functions, max_iterations, result,
                   payload, requests, start_len, last_op>>
    /\ UNCHANGED moderated

\* One pass of the for loop: execute_tool_call, then the tool message is
\* appended; after the last pass, continue with the while loop.
ToolCallStep(c, outcome) ==
    /\ program = "inception_agent"
    /\ pc[c] = "tools"
    /\ LET tool_call == pending[c][idx[c]]
           r == ExecuteToolCall(tool_call, tool_functions, outcome)
       IN  IF r.raised
             THEN /\ exc' = [exc EXCEPT ![c] = r.exc]
                  /\ pc' = [pc EXCEPT ![c] = "raised"]
                  /\ pending' = [pending EXCEPT ![c] = << >>]
                  /\ idx' = [idx EXCEPT ![c] = 0]
                  /\ iteration' = [iteration EXCEPT ![c] = 0]
                  /\ UNCHANGED <<conversation_history, invoked, last_callable>>
             ELSE /\ conversation_history' =
                        Append(conversation_history, ToolMessage(tool_call.id, r.content))
                  /\ invoked' = [invoked EXCEPT ![c] = @ + Len(r.called)]
                  /\ last_callable' = [last_callable EXCEPT ![c] =
                                            IF r.called = << >> THEN @ ELSE r.called[Len(r.called)]]
                  /\ UNCHANGED <<pending, iteration>>
                  /\ idx' = [idx EXCEPT ![c] = @ + 1]
                  /\ pc' = [pc EXCEPT ![c] = ForLoop(pending[c], idx[c] + 1)]
                  /\ UNCHANGED exc
    /\ UNCHANGED <<tools, tool_functions, max_iterations, result,
                   payload, requests, start_len, last_op>>
    /\ UNCHANGED moderated

(* ------------------------- reset_conversation -------------------------- *)

\* Faulty variant of reset_conversation: the registry is cleared with the transcript.
reset_conversation_clearing ==
    /\ program = "inception_agent"
    /\ \A c \in Callers : pc[c] \in Idle
    /\ conversation_history' = <<SystemMessage>>
    /\ tools' = << >>
    /\ tool_functions' = NoFunctions
    /\ MoveOn
    /\ last_op' = "reset_conversation"
    /\ UNCHANGED moderated

reset_conversation ==
    /\ program = "inception_agent"
    /\ \A c \in Callers : pc[c] \in Idle
    /\ conversation_history' = <<SystemMessage>>
    /\ MoveOn
    /\ last_op' = "reset_conversation"
    /\ UNCHANGED <<tools, tool_functions>>
    /\ UNCHANGED moderated

(* --------------------------- specification ----------------------------- *)

\* One step of a chat call of caller c.
Chat(c) ==
    \/ \E user_message \in UserTexts, max_it \in IterChoices : ChatStart(c, user_message, max_it)
    \/ SendRequest(c)
    \/ ReturnSentinel(c)
    \/ CompletionFails(c)
    \/ \E assistant_message \in Responses : CompletionReturns(c, assistant_message)
    \/ \E outcome \in Outcomes : ToolCallStep(c, outcome)

\* One agent used by one caller.
Next ==
    \/ \E c \in Sequential : Chat(c)
    \/ \E name \in ToolNames : add_tool(name)
    \/ reset_conversation

Spec == Init /\ [][Next]_vars

\* One agent used by two callers at once, without synchronization.  Each step
\* of a chat call makes at most one append, and the steps of the two calls
\* interleave in any order.  The callers pass different texts, the service
\* sends well-formed calls of "f", and the callables return.
TextOf(c) == IF c = 1 THEN "hi" ELSE "more"

WellFormedResponses ==
    { m \in Responses :
        /\ m.content # None \/ HasToolCalls(m)
        /\ \A k \in 1 .. Len(m.tool_calls) :
             m.tool_calls[k].name = "f" /\ JsonLoads(m.tool_calls[k].arguments).ok }

Returning == { o \in Outcomes : ~o.raises }

ChatInterleaved(c) ==
    \/ ChatStart(c, TextOf(c), MaxIter)
    \/ SendRequest(c)
    \/ ReturnSentinel(c)
    \/ CompletionFails(c)
    \/ \E assistant_message \in WellFormedResponses : CompletionReturns(c, assistant_message)
    \/ \E outcome \in Returning : ToolCallStep(c, outcome)

NextConcurrent ==
    \/ \E c \in Callers : ChatInterleaved(c)
    \/ add_tool("f")
    \/ reset_conversation

SpecConcurrent == Init /\ [][NextConcurrent]_vars

\* chat(self, user_message, max_iterations: int = 5)
DefaultMaxIterations == 5

\* The values of max_iterations in a chat call: one the caller passes, or the
\* default when it passes none.
IterArguments == IterChoices \cup {DefaultMaxIterations}

\* Responses with at most one tool call, of any name and arguments.
SingleCallResponses ==
    { m \in Responses :
        /\ Len(m.tool_calls) <= 1
        /\ \A k \in 1 .. Len(m.tool_calls) : m.tool_calls[k].id = 1 }

\* One step of a chat call whose max_iterations may be the default.
ChatWithDefault(c) ==
    \/ \E max_it \in IterArguments : ChatStart(c, "hi", max_it)
    \/ SendRequest(c)
    \/ ReturnSentinel(c)
    \/ CompletionFails(c)
    \/ \E assistant_message \in SingleCallResponses : CompletionReturns(c, assistant_message)
    \/ \E outcome \in Outcomes : ToolCallStep(c, outcome)

\* One agent used by one caller that may leave max_iterations to its default.
NextWithDefault ==
    \/ \E c \in Sequential : ChatWithDefault(c)
    \/ add_tool("f")
    \/ reset_conversation

SpecWithDefault == Init /\ [][NextWithDefault]_vars

\* Either agent class in use: an InceptionAgent, or a ChatAgent.
InitAgents ==
    /\ program \in {"inception_agent", "interactive_agent"}
    /\ NewInceptionAgent
    /\ NewChatAgent
    /\ MainLoopStart
    /\ MainStart

NextAgents ==
    \/ \E c \in Sequential : ChatWithDefault(c)
    \/ add_tool("f")
    \/ reset_conversation
    \/ \E user_input \in UserTexts, input_moderation \in Moderations,
          completion \in Completions \cup {NotCompleted},
          output_moderation \in Moderations \cup {NotAsked} :
            chat(user_input, input_moderation, completion, output_moderation)
    \/ ChatAgentReset

SpecAgents == InitAgents /\ [][NextAgents]_vars

\* interactive_agent.py run as a script: the loop of main around one ChatAgent.
InitMain ==
    /\ program = "interactive_agent"
    /\ NewInceptionAgent
    /\ NewChatAgent
    /\ MainLoopStart
    /\ MainStart

NextMain ==
    \/ \E line \in Lines, input_moderation \in Moderations \cup {NotAsked},
          completion \in Completions \cup {NotCompleted},
          output_moderation \in Moderations \cup {NotAsked} :
            MainPass(line, input_moderation, completion, output_moderation)
    \/ Interrupted
    \/ InputFails

SpecMain == InitMain /\ [][NextMain]_vars

\* The scripts with moderation: the interactive ChatAgent, whose user turns
\* come in any order, or the examples of agent_with_guardrails.py.
NextModerated ==
    \/ \E user_input \in UserTexts, input_moderation \in Moderations,
          completion \in Completions \cup {NotCompleted},
          output_moderation \in Moderations \cup {NotAsked} :
            chat(user_input, input_moderation, completion, output_moderation)
    \/ ChatAgentReset
    \/ \E moderation \in Moderations, completion \in Completions \cup {NotCompleted},
          output_moderation \in Moderations \cup {NotAsked},
          validation \in Validations \cup {NotValidated} :
            \/ BasicPass(moderation, completion, output_moderation, validation)
            \/ ConversationalPass(moderation, completion, output_moderation, validation)
    \/ \E moderation \in Moderations : DemonstratePass(moderation)

SpecModerated == InitModerated /\ [][NextModerated]_vars

(* ============================== properties ============================= *)

Last(seq) == seq[Len(seq)]

Finished(c) == pc[c] \in {"returned", "raised"}

\* Positions in the transcript of the messages chat has appended in the call
\* of caller c that is running or has just come back.
CallPositions(c) == (start_len[c] + 1) .. Len(conversation_history)

\* Position of the nearest assistant message before position j (0 if none).
PrecedingAssistant(j) ==
    LET before == { i \in 1 .. (j - 1) : conversation_history[i].role = "assistant" }
    IN  IF before = {} THEN 0 ELSE CHOOSE i \in before : \A k \in before : k <= i

\* The response carries no tool-call requests: tool_calls absent or empty.
NoToolCallRequests(m) == ~m.tc_key \/ m.tool_calls = << >>

(* ---------------------------------- C1 --------------------------------- *)

\* C1: whatever chat calls have run, whatever the service answered and the
\* tools did, the transcript is not empty and its first element is the
\* system message built at construction; no later element is a system message.
C1_SystemMessageFirst ==
    /\ Len(conversation_history) >= 1
    /\ conversation_history[1] = SystemMessage
    /\ \A i \in 2 .. Len(conversation_history) : conversation_history[i].role # "system"

\* A second chat call has come back after a tool-calling turn.
C1_Witness ==
    /\ pc[1] = "returned"
    /\ start_len[1] = 3
    /\ \E i \in CallPositions(1) : conversation_history[i].role = "tool"

(* ---------------------------------- C2 --------------------------------- *)

\* The tool messages that directly follow position i.
ToolRun(i) ==
    { j \in (i + 1) .. Len(conversation_history) :
        \A k \in (i + 1) .. j : conversation_history[k].role = "tool" }

\* C2: once the for loop of a turn is over (the call is back at the while
\* test, or has ended), every assistant message of the transcript that
\* carries k >= 1 tool_calls is followed by exactly k tool messages, and the
\* tool_call_id of every tool message is the id of exactly one tool_calls
\* entry of the nearest assistant message before it.
C2_ToolMessagesPairUp ==
    (\A c \in Callers : pc[c] # "tools") =>
        /\ \A i \in 1 .. Len(conversation_history) :
             LET m == conversation_history[i]
             IN  (m.role = "assistant" /\ HasToolCalls(m)) =>
                     Cardinality(ToolRun(i)) = Len(m.tool_calls)
        /\ \A j \in 1 .. Len(conversation_history) :
             conversation_history[j].role = "tool" =>
                 LET a == PrecedingAssistant(j)
                 IN  /\ a # 0
                     /\ Cardinality({ n \in 1 .. Len(conversation_history[a].tool_calls) :
                                        conversation_history[a].tool_calls[n].id =
                                            conversation_history[j].tool_call_id }) = 1

(* ---------------------------------- C3 --------------------------------- *)

\* The service answered every request of the call, each time with a
\* tool-call request.
AlwaysToolCalls(c) ==
    /\ exc[c] # "Inception Labs API error"
    /\ \A i \in CallPositions(c) :
         conversation_history[i].role = "assistant" => HasToolCalls(conversation_history[i])

\* The number of times the loop body runs for a given max_iterations.
Rounds(max_it) == IF max_it > 0 THEN max_it ELSE 0

\* C3: a chat call that has ended, and in which the service answered every
\* request with a tool-call request, has returned (not raised) the sentinel
\* after exactly max_iterations requests.
C3_SentinelAfterMaxIterations ==
    \A c \in Callers :
        (Finished(c) /\ AlwaysToolCalls(c)) =>
            /\ pc[c] = "returned"
            /\ result[c] = Sentinel
            /\ requests[c] = Rounds(max_iterations[c])

(* ---------------------------------- C4 --------------------------------- *)

\* Caller c is about to execute a tool call whose name is not registered.
UnregisteredCallNext(c) ==
    /\ pc[c] = "tools"
    /\ pending[c][idx[c]].name \notin DOMAIN tool_functions

\* C4: executing a tool call whose function name is not in the registry does
\* not raise: the step appends the tool message with the call's id and the
\* "not found" error string, invokes no callable, and the loop goes on.
C4_UnregisteredNameReported ==
    [][ \A c \in Sequential :
          UnregisteredCallNext(c) =>
              /\ conversation_history' =
                     Append(conversation_history,
                            ToolMessage(pending[c][idx[c]].id, NotFound(pending[c][idx[c]].name)))
              /\ invoked'[c] = invoked[c]
              /\ pc'[c] \in {"tools", "loop"} ]_vars

(* ---------------------------------- C5 --------------------------------- *)

\* Caller c is about to execute a tool call that reaches a registered callable:
\* the arguments parse and the name is registered.
RegisteredCallNext(c) ==
    /\ pc[c] = "tools"
    /\ JsonLoads(pending[c][idx[c]].arguments).ok
    /\ pending[c][idx[c]].name \in DOMAIN tool_functions

\* What execute_tool_call may return for a call of the registered function
\* `name`: the serialized return value, or the error string of what it raised.
CallableResults(name) ==
    { IF o.raises THEN ErrorExecuting(name, o.value) ELSE JsonDumps(o.value) : o \in Outcomes }

\* A chat call raises only what the completion request or json.loads raised.
ChatRaises == {"none", "Inception Labs API error", "JSONDecodeError"}

\* C5: whatever a registered callable does when it is invoked, raising
\* included, the step does not raise: it appends one tool message with the
\* call's id whose content is the serialized result or the string
\* "Error executing <name>: <message>", and the loop goes on; no chat call
\* ever raises what a callable raised.
C5_CallableFailureCaught ==
    /\ [][ \A c \in Sequential :
             RegisteredCallNext(c) =>
                 /\ \E content \in CallableResults(pending[c][idx[c]].name) :
                        conversation_history' =
                            Append(conversation_history,
                                   ToolMessage(pending[c][idx[c]].id, content))
                 /\ invoked'[c] = invoked[c] + 1
                 /\ exc'[c] = "none"
                 /\ pc'[c] \in {"tools", "loop"} ]_vars
    /\ [](\A c \in Sequential : exc[c] \in ChatRaises)

\* A callable raised in a tool call and the chat call went on to return the
\* final answer.
C5_Witness ==
    /\ pc[1] = "returned"
    /\ result[1] = Text("done")
    /\ \E i \in CallPositions(1) :
         /\ conversation_history[i].role = "tool"
         /\ conversation_history[i].content = ErrorExecuting("f", "boom")

(* ---------------------------------- C6 --------------------------------- *)

\* chat has come back with the value of a final response.
NormalReturn(c) == pc[c] = "returned" /\ result[c] # Sentinel

\* chat has come back with the sentinel.
BudgetExhausted(c) == pc[c] = "returned" /\ result[c] = Sentinel

\* C6 as stated: when chat has returned after at least one response, the last
\* element of the transcript is an assistant message: the final one, whose
\* content is the returned value, on a normal return, and the last assistant
\* message on budget exhaustion.
C6_EndsWithAssistantMessage ==
    \A c \in Sequential :
        (pc[c] = "returned" /\ requests[c] >= 1) =>
            /\ Last(conversation_history).role = "assistant"
            /\ NormalReturn(c) => Last(conversation_history).content = result[c]

\* C6 amended: on a normal return the last element is the final assistant
\* message, which has no tool calls and whose content is the returned value.
\* On budget exhaustion the sentinel is not appended: the transcript ends with
\* the last assistant message followed by one tool message per tool call of
\* it (so its last element is a tool message), or, when no request was made,
\* with the user message of the call.
C6_EndsWithSurfacedOrToolMessage ==
    \A c \in Sequential :
        /\ NormalReturn(c) =>
             /\ Last(conversation_history).role = "assistant"
             /\ ~HasToolCalls(Last(conversation_history))
             /\ Last(conversation_history).content = result[c]
        /\ (BudgetExhausted(c) /\ requests[c] = 0) =>
             /\ Len(conversation_history) = start_len[c] + 1
             /\ Last(conversation_history).role = "user"
        /\ (BudgetExhausted(c) /\ requests[c] >= 1) =>
             LET a == PrecedingAssistant(Len(conversation_history) + 1)
                 m == conversation_history[a]
             IN  /\ a \in CallPositions(c)
                 /\ HasToolCalls(m)
                 /\ Len(conversation_history) = a + Len(m.tool_calls)
                 /\ \A n \in 1 .. Len(m.tool_calls) :
                      /\ conversation_history[a + n].role = "tool"
                      /\ conversation_history[a + n].tool_call_id = m.tool_calls[n].id
                 /\ Last(conversation_history).content # Sentinel

\* chat has returned the sentinel after two tool-calling turns.
C6_Witness ==
    /\ BudgetExhausted(1)
    /\ requests[1] = 2
    /\ Last(conversation_history).role = "tool"

(* ---------------------------------- C7 --------------------------------- *)

\* The definitions in defs that carry the function name `name`.
DefinitionsOf(defs, name) == { k \in 1 .. Len(defs) : defs[k].function.name = name }

\* C7: registering a name again replaces the earlier entry: the tool list of
\* every request sent to the service has at most one definition per name, and
\* the callable kept for a name is the one registered last under it (callables
\* are numbered by registration: the k-th add_tool call registers callable k).
C7_DuplicateNameReplaces ==
    /\ \A c \in Sequential :
         payload[c].sent =>
             \A name \in ToolNames : Cardinality(DefinitionsOf(payload[c].tools, name)) <= 1
    /\ \A name \in DOMAIN tool_functions :
         /\ DefinitionsOf(tools, name) # {}
         /\ \A k \in DefinitionsOf(tools, name) : k <= tool_functions[name]
         /\ tool_functions[name] \in DefinitionsOf(tools, name)

(* ---------------------------------- C8 --------------------------------- *)

\* C8: a step of reset_conversation, whatever the transcript before it, leaves
\* the transcript as the one original system message and leaves the tool
\* definition list and the name -> callable registry as they were.
C8_ResetKeepsRegistry ==
    [][ last_op' = "reset_conversation" =>
          /\ Len(conversation_history') = 1
          /\ conversation_history'[1].role = "system"
          /\ conversation_history'[1].content = SystemPrompt
          /\ tools' = tools
          /\ tool_functions' = tool_functions ]_vars

\* reset_conversation has just run on an agent with two registered tools.
C8_Witness ==
    /\ last_op = "reset_conversation"
    /\ Len(tools) = 2
    /\ DOMAIN tool_functions = ToolNames
    /\ conversation_history = <<SystemMessage>>

(* ---------------------------------- C9 --------------------------------- *)

\* The scenario of C9, read off a chat call that has ended: the call started
\* on the fresh transcript as chat("hi", max_iterations = 2) with exactly one
\* tool registered; the service answered every request, each time asking once
\* for that tool with well-formed arguments; the tool did nothing and returned.
C9_Scenario(c) ==
    /\ Finished(c)
    /\ start_len[c] = 1
    /\ max_iterations[c] = 2
    /\ conversation_history[2] = UserMessage("hi")
    /\ Len(tools) = 1
    /\ exc[c] # "Inception Labs API error"
    /\ \A i \in 3 .. Len(conversation_history) :
         LET m == conversation_history[i]
         IN  /\ m.role = "assistant" =>
                  /\ m.tc_key
                  /\ Len(m.tool_calls) = 1
                  /\ m.tool_calls[1].name = tools[1].function.name
                  /\ JsonLoads(m.tool_calls[1].arguments).ok
             /\ m.role = "tool" => m.content = JsonDumps("null")

\* C9: in that scenario chat returns the sentinel after exactly 2 requests and
\* the transcript has length 6: system, user, then twice (assistant, tool).
C9_TwoRoundsLengthSix ==
    \A c \in Sequential :
        C9_Scenario(c) =>
            /\ pc[c] = "returned"
            /\ result[c] = Sentinel
            /\ requests[c] = 2
            /\ Len(conversation_history) = 6
            /\ [i \in 1 .. 6 |-> conversation_history[i].role] =
                   <<"system", "user", "assistant", "tool", "assistant", "tool">>

\* The scenario has run to its end.
C9_Witness ==
    /\ C9_Scenario(1)
    /\ pc[1] = "returned"
    /\ invoked[1] = 2
    /\ Len(conversation_history) = 6

(* --------------------------------- C10 --------------------------------- *)

\* C10: among the messages a chat call has appended, an assistant message
\* without tool-call requests (tool_calls absent or empty) can only be the
\* last one: chat has returned its content, nothing was appended after it
\* (no tool ran, no further response came) and no request is in flight.
C10_FinalResponseEndsLoop ==
    \A c \in Sequential :
        pc[c] # "idle" =>
            \A i \in CallPositions(c) :
                LET m == conversation_history[i]
                IN  (m.role = "assistant" /\ NoToolCallRequests(m)) =>
                        /\ i = Len(conversation_history)
                        /\ pc[c] = "returned"
                        /\ result[c] = m.content
                        /\ ~payload[c].sent

\* chat has returned the content of its first response, whose tool_calls list
\* is empty, with an iteration to spare.
C10_Witness ==
    /\ pc[1] = "returned"
    /\ max_iterations[1] = 2
    /\ requests[1] = 1
    /\ Last(conversation_history).role = "assistant"
    /\ Last(conversation_history).tc_key
    /\ Last(conversation_history).tool_calls = << >>
    /\ result[1] = Text("done")

(* ---------------------------------- C11 -------------------------------- *)

\* The assistant message at position i is directly followed by the tool
\* messages of its tool calls: one per call, in the order of the calls, each
\* with the id of its call.
ToolResultsFollow(i) ==
    LET m == conversation_history[i]
    IN  \A k \in 1 .. Len(m.tool_calls) :
            /\ i + k <= Len(conversation_history)
            /\ conversation_history[i + k].role = "tool"
            /\ conversation_history[i + k].tool_call_id = m.tool_calls[k].id

\* The requests in flight.
Outstanding == { c \in Callers : payload[c].sent }

\* The assistant messages the running call of caller c has appended.
AssistantPositions(c) ==
    { i \in CallPositions(c) : conversation_history[i].role = "assistant" }

\* C11: with one caller, at most one request is in flight, and while a
\* request of a chat call is in flight every earlier response of that call is
\* in the transcript (one assistant message per earlier request), each
\* followed by a tool message for every one of its tool calls.
C11_RequestsSequential ==
    /\ Cardinality(Outstanding) <= 1
    /\ \A c \in Sequential :
         payload[c].sent =>
            /\ pc[c] = "await"
            /\ Cardinality(AssistantPositions(c)) = requests[c] - 1
            /\ \A i \in AssistantPositions(c) :
                 /\ HasToolCalls(conversation_history[i])
                 /\ ToolResultsFollow(i)
            /\ payload[c].messages = conversation_history

\* The second request of a call is in flight after a response with two tool calls.
C11_Witness ==
    /\ payload[1].sent
    /\ requests[1] = 2
    /\ \E i \in AssistantPositions(1) : Len(conversation_history[i].tool_calls) = 2

(* ---------------------------------- C12 -------------------------------- *)

\* The request of caller c in flight ends without a response being appended.
RequestFails(c) ==
    /\ pc[c] = "await"
    /\ pc'[c] # "await"
    /\ conversation_history' = conversation_history

\* chat has raised what create_completion raised.
RaisedApiError(c) == pc[c] = "raised" /\ exc[c] = "Inception Labs API error"

\* C12: when the request in flight fails, chat raises the failure at once:
\* no further request is made (the failed one was attempted once), nothing is
\* appended, and chat returns neither an answer nor the sentinel.  The call
\* that raised has made exactly one request more than it has received
\* responses.
C12_TransportFailurePropagates ==
    /\ [][ \A c \in Sequential :
             RequestFails(c) =>
                 /\ pc'[c] = "raised"
                 /\ exc'[c] = "Inception Labs API error"
                 /\ result'[c] = None
                 /\ requests'[c] = requests[c]
                 /\ ~payload'[c].sent ]_vars
    /\ [](\A c \in Sequential :
             RaisedApiError(c) =>
                 /\ result[c] = None
                 /\ requests[c] = Cardinality(AssistantPositions(c)) + 1)

\* The second request of a call failed, after a tool-calling turn.
C12_Witness ==
    /\ RaisedApiError(1)
    /\ requests[1] = 2
    /\ Last(conversation_history).role = "tool"

(* ---------------------------------- C13 -------------------------------- *)

\* In the message list `msgs`, the place of the k-th tool result of the
\* assistant message at position i holds that result.
ResultInPlace(msgs, i, k) ==
    /\ i + k <= Len(msgs)
    /\ msgs[i + k].role = "tool"
    /\ msgs[i + k].tool_call_id = msgs[i].tool_calls[k].id

\* Positions of the assistant messages of `msgs` that request tool calls.
Requesting(msgs) == { i \in 1 .. Len(msgs) : HasToolCalls(msgs[i]) }

\* A tool message is separated from the assistant message that requested it:
\* another message stands in the place of a tool result.
ResultDisplaced ==
    \E i \in Requesting(conversation_history) :
        \E k \in 1 .. Len(conversation_history[i].tool_calls) :
            /\ i + k <= Len(conversation_history)
            /\ ~ResultInPlace(conversation_history, i, k)

\* A request in flight carries an assistant tool_calls message that lacks a
\* tool result.
RequestLacksResult ==
    \E c \in Callers :
        /\ payload[c].sent
        /\ \E i \in Requesting(payload[c].messages) :
             \E k \in 1 .. Len(payload[c].messages[i].tool_calls) :
                 ~ResultInPlace(payload[c].messages, i, k)

PairingBroken == ResultDisplaced \/ RequestLacksResult

\* C13, second half: when chat calls run one at a time, no state is reached
\* in which the tool-call/tool-result pairing is broken.
C13_PairingIntactOneAtATime == ~PairingBroken

\* C13, first half: two chat calls that interleave reach a state in which a
\* message of one call stands between an assistant message of the other and
\* its tool result, and a request is in flight with that transcript.  The
\* predicate is the negation of that state, violated under SpecConcurrent.
C13_PairingIntactInterleaved ==
    ~(/\ \A c \in Callers : pc[c] \notin Idle
      /\ ResultDisplaced
      /\ RequestLacksResult)

(* ---------------------------------- C14 -------------------------------- *)

\* The last call on the ChatAgent was chat and its input / output moderation
\* request raised.
InputCheckErrored == turn.op = "chat" /\ turn.input_moderation.raises

OutputCheckErrored == turn.op = "chat" /\ turn.output_moderation.raises

\* What the last chat call would have left and returned had its input /
\* output moderation request answered "not flagged".
AsIfInputSafe ==
    LET r == ChatAgentChat(turn.before, turn.user_input, Unflagged, turn.completion,
                           turn.output_moderation)
    IN  [messages |-> r.messages, response |-> r.response]

AsIfOutputSafe ==
    LET r == ChatAgentChat(turn.before, turn.user_input, turn.input_moderation,
                           turn.completion, Unflagged)
    IN  [messages |-> r.messages, response |-> r.response]

\* C14: the moderation checks fail open.  When the moderation request of a
\* ChatAgent check raises, the check returns (True, "") and chat leaves the
\* transcript and returns the value it would with a "not flagged" answer: the
\* user message is appended and, when the output check is the one that
\* raised, so is the model's output, which chat returns.  When the moderation
\* request of a guardrail raises, validate returns its text unchanged: the
\* query goes to the model, and the output is printed as it came.
C14_ModerationFailsOpen ==
    /\ InputCheckErrored =>
         /\ check_input_safety(turn.input_moderation) = Safe
         /\ [messages |-> messages, response |-> response] = AsIfInputSafe
         /\ Len(messages) > Len(turn.before)
         /\ messages[Len(turn.before) + 1] = ChatMessage("user", Text(turn.user_input))
    /\ OutputCheckErrored =>
         /\ check_output_safety(turn.output_moderation) = Safe
         /\ [messages |-> messages, response |-> response] = AsIfOutputSafe
         /\ response = turn.completion.content
         /\ Last(messages) = ChatMessage("assistant", turn.completion.content)
    /\ last_pass.moderation.raises =>
         /\ last_pass.validated = Returns(last_pass.query)
         /\ ~last_pass.skipped
         /\ last_pass.fn # "demonstrate_guardrails" =>
                Last(last_pass.request) = ChatMessage("user", last_pass.query)
    /\ last_pass.output_moderation.raises =>
         last_pass.printed = last_pass.completion.content

\* Both moderation requests of one ChatAgent.chat call raised and chat
\* returned the model's output.
C14_Witness ==
    /\ InputCheckErrored
    /\ OutputCheckErrored
    /\ response = Text("answer")
    /\ Len(messages) = 5

\* The input guardrail's moderation request raised on the third query of the
\* conversational example.
C14_WitnessGuardrail ==
    /\ last_pass.fn = "conversational_agent_with_guardrails"
    /\ last_pass.moderation.raises
    /\ last_pass.output_moderation.raises
    /\ Len(conv_messages) = 7

(* ---------------------------------- C15 -------------------------------- *)

\* C15: in agent_with_guardrails.py, for a query the moderation service
\* flags, validate raises ValueError to its caller, the pass of the for loop
\* is skipped, no request with the query goes to the Mercury model, and the
\* query is not added to the conversation.
C15_FlaggedInputBlocked ==
    last_pass.moderation.flagged =>
        /\ last_pass.validated = Raises("ValueError")
        /\ last_pass.skipped
        /\ last_pass.request = << >>
        /\ \A i \in 1 .. Len(conv_messages) :
             conv_messages[i] # ChatMessage("user", last_pass.query)

(* ---------------------------------- C16 -------------------------------- *)

\* C16: the tool messages of a turn stand directly after the assistant
\* message of the turn, the k-th of them carrying the id of the k-th tool
\* call of that message, with no other message between; and while the for
\* loop runs, the calls before its position are exactly those whose tool
\* messages have been appended, so the calls are executed in list order.
C16_ToolCallsInServiceOrder ==
    \A c \in Sequential :
        /\ \A j \in CallPositions(c) :
             conversation_history[j].role = "tool" =>
                 LET a == PrecedingAssistant(j)
                 IN  /\ a \in CallPositions(c)
                     /\ HasToolCalls(conversation_history[a])
                     /\ \A k \in (a + 1) .. j : conversation_history[k].role = "tool"
                     /\ j - a <= Len(conversation_history[a].tool_calls)
                     /\ conversation_history[j].tool_call_id =
                            conversation_history[a].tool_calls[j - a].id
        /\ pc[c] = "tools" =>
             LET a == PrecedingAssistant(Len(conversation_history) + 1)
             IN  /\ a \in CallPositions(c)
                 /\ pending[c] = conversation_history[a].tool_calls
                 /\ Len(conversation_history) = a + idx[c] - 1

\* A turn with two tool calls of different functions is over: both tool
\* messages are in the transcript.
C16_Witness ==
    /\ pc[1] = "loop"
    /\ Len(conversation_history) = 5
    /\ HasToolCalls(conversation_history[3])
    /\ conversation_history[3].tool_calls[1].name # conversation_history[3].tool_calls[2].name
    /\ conversation_history[4].tool_call_id = 1
    /\ conversation_history[5].tool_call_id = 2

(* ---------------------------------- C17 -------------------------------- *)

\* The requests of the call of caller c that have returned a response: all
\* it issued but the one in flight or the one that failed.
Returned(c) ==
    requests[c] - (IF pc[c] = "await" \/ RaisedApiError(c) THEN 1 ELSE 0)

\* C17: a chat call, while it runs and when it has come back, has appended
\* one assistant message per request that returned, whatever the response was.  When the for loop is about to
\* execute the first tool call of a response, that response is already the
\* last element of the transcript; and a response that ends the call is the
\* last element when chat returns its content, a content of None included.
C17_ResponseAppendedFirst ==
    \A c \in Sequential :
        /\ pc[c] # "idle" => Cardinality(AssistantPositions(c)) = Returned(c)
        /\ (pc[c] = "tools" /\ idx[c] = 1) =>
             /\ Last(conversation_history).role = "assistant"
             /\ Last(conversation_history).tool_calls = pending[c]
        /\ NormalReturn(c) =>
             /\ Last(conversation_history).role = "assistant"
             /\ Last(conversation_history).content = result[c]

\* The second response of a call, a tool-call request without content, has
\* been appended and none of its tool calls has been executed.
C17_Witness ==
    /\ pc[1] = "tools"
    /\ idx[1] = 1
    /\ requests[1] = 2
    /\ Last(conversation_history).content = None
    /\ Cardinality(AssistantPositions(1)) = 2

(* ---------------------------------- C18 -------------------------------- *)

\* The entry of a tools list is a definition: type "function" and a function
\* made of name, description and parameters, and of nothing else.
DefinitionOnly(entry) ==
    /\ DOMAIN entry = {"type", "function"}
    /\ entry.type = "function"
    /\ DOMAIN entry.function = {"name", "description", "parameters"}

\* C18: a request in flight carries the whole transcript as it stands: the
\* system message first, the messages of earlier chat calls, the user message
\* of this call and everything appended since; it carries the configured
\* model; and its tools are the definitions of the registered tools, one at
\* least for every registered name, each made of name, description and
\* parameters only (the "tools" key is there when a tool is registered).
C18_RequestCarriesTranscript ==
    \A c \in Sequential :
        payload[c].sent =>
            /\ payload[c].messages = conversation_history
            /\ payload[c].messages[1] = SystemMessage
            /\ Len(payload[c].messages) > start_len[c]
            /\ payload[c].messages[start_len[c] + 1].role = "user"
            /\ payload[c].model = Model
            /\ payload[c].has_tools <=> DOMAIN tool_functions # {}
            /\ payload[c].tools = tools
            /\ \A name \in DOMAIN tool_functions :
                 \E k \in 1 .. Len(payload[c].tools) : payload[c].tools[k].function.name = name
            /\ \A k \in 1 .. Len(payload[c].tools) :
                 /\ DefinitionOnly(payload[c].tools[k])
                 /\ payload[c].tools[k].function.name \in DOMAIN tool_functions

\* The second request of the second chat call is in flight, with two tools
\* registered: it carries the first call's messages and this call's turn.
C18_Witness ==
    /\ payload[1].sent
    /\ start_len[1] = 3
    /\ requests[1] = 2
    /\ Len(payload[1].messages) >= 6
    /\ DOMAIN tool_functions = ToolNames

(* ---------------------------------- C19 -------------------------------- *)

IsPrefix(s, t) == Len(s) <= Len(t) /\ SubSeq(t, 1, Len(s)) = s

\* The step is the first step of a chat call of caller c.
ChatBegins(c) == pc[c] \in Idle /\ pc'[c] \notin Idle

\* C19: in every step that is not a reset_conversation call, the transcript
\* before the step is a prefix of the transcript after it, which is at most
\* one message longer: no entry is removed, reordered or replaced.  The first
\* step of a chat call appends exactly one message, a user message with one
\* of the caller's texts, to the transcript as the call found it.
C19_TranscriptAppendOnly ==
    [][ /\ last_op' # "reset_conversation" =>
             /\ IsPrefix(conversation_history, conversation_history')
             /\ Len(conversation_history') <= Len(conversation_history) + 1
        /\ \A c \in Sequential :
             ChatBegins(c) =>
                 /\ \E user_message \in UserTexts :
                        conversation_history' =
                            Append(conversation_history, UserMessage(user_message))
                 /\ start_len'[c] = Len(conversation_history) ]_vars

\* A second chat call has appended its user message, a tool-call response
\* and a tool message after the messages of the first call.
C19_Witness ==
    /\ pc[1] = "loop"
    /\ start_len[1] = 3
    /\ Len(conversation_history) = 6
    /\ conversation_history[4].role = "user"
    /\ Last(conversation_history).role = "tool"

(* ---------------------------------- C20 -------------------------------- *)

\* C20: whatever the service answers and the tools do, a chat call has issued
\* no more requests than its max_iterations (none when max_iterations is zero
\* or negative), and no more than 5 when max_iterations is left to its
\* default.  The number of the request in flight is the iteration count.
C20_AtMostMaxIterationsRequests ==
    \A c \in Sequential :
        /\ requests[c] <= Rounds(max_iterations[c])
        /\ max_iterations[c] = DefaultMaxIterations => requests[c] <= 5
        /\ pc[c] \in {"await", "tools"} => requests[c] = iteration[c]

\* A call with the default max_iterations has returned the sentinel after
\* five requests, each answered with a tool-call request.
C20_Witness ==
    /\ BudgetExhausted(1)
    /\ max_iterations[1] = DefaultMaxIterations
    /\ requests[1] = 5
    /\ Len(conversation_history) = 12

(* ---------------------------------- C21 -------------------------------- *)

\* The content of a tool message is the text of a tool-level failure: an
\* unregistered name, or a callable that raised.
IsToolError(content) ==
    \/ \E name \in ToolNames : content = NotFound(name)
    \/ \E name \in ToolNames, o \in Outcomes : o.raises /\ content = ErrorExecuting(name, o.value)

\* The turn of the assistant message at position i has a tool message that
\* reports a tool-level failure.
TurnHasToolError(i) ==
    \E j \in ToolRun(i) : IsToolError(conversation_history[j].content)

\* C21: once the for loop of a turn in which a tool call failed at tool level
\* is over, every tool call of the response has its tool message: the failure
\* did not keep the remaining calls from being executed and answered.
C21_ToolFailureKeepsTurnGoing ==
    \A c \in Sequential :
        pc[c] # "tools" =>
            \A i \in AssistantPositions(c) :
                (HasToolCalls(conversation_history[i]) /\ TurnHasToolError(i)) =>
                    ToolResultsFollow(i)

(* ---------------------------------- C22 -------------------------------- *)

\* The transcripts of freshly constructed agents.
FreshInceptionAgent == <<SystemMessage>>

FreshChatAgent == <<ChatAgentSystemMessage>>

\* reset_conversation was the last call on the agent.
InceptionAgentJustReset == program = "inception_agent" /\ last_op = "reset_conversation"

ChatAgentJustReset == turn.op = "reset_conversation"

\* C22: right after reset_conversation the transcript of an InceptionAgent,
\* and that of a ChatAgent, is the transcript of a freshly constructed agent,
\* whatever it was before the call; a reset called on a transcript that is
\* already fresh (a second reset) leaves it as it was.
C22_ResetRestoresFreshTranscript ==
    /\ InceptionAgentJustReset => conversation_history = FreshInceptionAgent
    /\ ChatAgentJustReset =>
         /\ messages = FreshChatAgent
         /\ turn.before = FreshChatAgent => messages = turn.before

\* reset_conversation has been called on a ChatAgent after two full turns.
C22_Witness ==
    /\ ChatAgentJustReset
    /\ Len(turn.before) = 5
    /\ messages = FreshChatAgent

\* reset_conversation has been called on an InceptionAgent with a registered
\* tool.
C22_WitnessInceptionAgent ==
    /\ InceptionAgentJustReset
    /\ Len(tools) = 1
    /\ conversation_history = FreshInceptionAgent

\* reset_conversation has been called twice in a row on a ChatAgent.
C22_WitnessTwice ==
    /\ ChatAgentJustReset
    /\ turn.before = FreshChatAgent
    /\ response # None

(* ---------------------------------- C23 -------------------------------- *)

\* The lines that are commands, and the lines that are not.
QuitLines == { <<"q", "u", "i", "t">>, <<"E", "X", "I", "T">>, <<" ", "Q", "u", "i", "t", " ">> }

ClearLines == { <<"c", "l", "e", "a", "r">>, <<"C", "l", "e", "a", "r">> }

HelpLines == { <<"h", "e", "l", "p">>, <<"H", "E", "L", "P", " ">> }

EmptyLines == { << >>, <<" ">> }

CommandLines == QuitLines \cup ClearLines \cup HelpLines \cup EmptyLines

OtherLines == { <<"h", "i">>, <<"q", "u", "i", "t", " ", "i", "t">> }

\* The last pass of the loop read a line.
LineRead == main_pass.command \in {"empty", "quit", "clear", "help", "chat"}

\* C23: in the loop of main, 'quit' and 'exit' in any letter case end the
\* session, 'clear' resets the conversation, 'help' prints the welcome text
\* again and empty input changes nothing; a pass for one of these makes no
\* call of ChatAgent.chat and no remote request, and no command is ever the
\* argument of chat or the content of a transcript message.  A pass for any
\* other line makes exactly one call of ChatAgent.chat, with that input.
C23_CommandsNeverReachChat ==
    /\ LineRead =>
         /\ main_pass.line \in QuitLines =>
              /\ session = "ended"
              /\ main_pass.shown = Goodbye
              /\ messages = main_pass.before
         /\ main_pass.line \in ClearLines =>
              /\ session = "running"
              /\ messages = <<ChatAgentSystemMessage>>
              /\ turn.op = "reset_conversation"
         /\ main_pass.line \in HelpLines =>
              /\ session = "running"
              /\ main_pass.shown = Welcome
              /\ messages = main_pass.before
         /\ main_pass.line \in EmptyLines =>
              /\ session = "running"
              /\ messages = main_pass.before
         /\ main_pass.line \in CommandLines =>
              /\ main_pass.chat_calls = 0
              /\ main_pass.remote_requests = 0
         /\ main_pass.line \in OtherLines =>
              /\ session = "running"
              /\ main_pass.chat_calls = 1
              /\ main_pass.remote_requests >= 1
              /\ turn = Turn("chat", main_pass.line, turn.input_moderation, turn.completion,
                             turn.output_moderation, main_pass.before)
    /\ turn.op = "chat" => turn.user_input \in OtherLines
    /\ \A i \in 2 .. Len(messages) :
         messages[i].role = "user" => \E line \in OtherLines : messages[i].content = Text(line)

\* 'Quit' typed with spaces around it has ended a session of two full turns.
C23_Witness ==
    /\ main_pass.line = <<" ", "Q", "u", "i", "t", " ">>
    /\ session = "ended"
    /\ Len(messages) = 5

(* ---------------------------------- C24 -------------------------------- *)

\* The call of chat ended with the exception json.loads raises.
RaisedDecodeError(c) == pc[c] = "raised" /\ exc[c] = "JSONDecodeError"

\* The tool messages at the end of the transcript.
TrailingToolMessages ==
    Len(conversation_history) - PrecedingAssistant(Len(conversation_history) + 1)

\* C24: when the arguments of a tool call are no valid JSON, execute_tool_call
\* raises before it looks the name up and the exception leaves chat: the
\* transcript then ends with the assistant message that carries the tool
\* calls and the tool messages of the calls before the failing one, with no
\* tool message for the failing call or for any call after it.
C24_DecodeErrorLeavesCallsUnanswered ==
    \A c \in Sequential :
        RaisedDecodeError(c) =>
            LET i == PrecedingAssistant(Len(conversation_history) + 1)
                k == TrailingToolMessages
            IN  /\ i > start_len[c] + 1
                /\ HasToolCalls(conversation_history[i])
                /\ k < Len(conversation_history[i].tool_calls)
                /\ ~JsonLoads(conversation_history[i].tool_calls[k + 1].arguments).ok
                /\ \A j \in 1 .. k :
                       /\ conversation_history[i + j].role = "tool"
                       /\ conversation_history[i + j].tool_call_id =
                              conversation_history[i].tool_calls[j].id
                       /\ JsonLoads(conversation_history[i].tool_calls[j].arguments).ok
                /\ result[c] = None

\* The second call of a response has unparseable arguments and names no
\* registered tool; the first call was answered.
C24_Witness ==
    /\ RaisedDecodeError(1)
    /\ TrailingToolMessages = 1
    /\ LET m == conversation_history[Len(conversation_history) - 1]
       IN  /\ Len(m.tool_calls) = 2
           /\ m.tool_calls[2].name \notin DOMAIN tool_functions

(* ---------------------------------- C25 -------------------------------- *)

\* The step in which an exception leaves chat.
ChatFails(c) == pc[c] \notin Idle /\ pc'[c] = "raised"

\* The step in which chat is called right after a call that failed.
ChatAfterFailure(c) == pc[c] = "raised" /\ pc'[c] = "loop"

\* The step that posts a request.
RequestPosted(c) == pc[c] = "loop" /\ pc'[c] = "await"

NoIterations(c) == pc[c] # "idle" /\ max_iterations[c] <= 0

\* C26: a call of chat with max_iterations <= 0 never enters the loop body:
\* it issues no request, appends only the user message and returns the
\* sentinel string.
C26_NoIterationsNoRequest ==
    \A c \in Sequential :
        NoIterations(c) =>
            /\ pc[c] \in {"loop", "returned"}
            /\ requests[c] = 0
            /\ invoked[c] = 0
            /\ iteration[c] >= max_iterations[c]
            /\ Len(conversation_history) = start_len[c] + 1
            /\ Last(conversation_history).role = "user"
            /\ pc[c] = "returned" => result[c] = Sentinel

\* A call with a negative max_iterations has returned, after an earlier call
\* that was answered.
C26_Witness ==
    /\ pc[1] = "returned"
    /\ max_iterations[1] < 0
    /\ result[1] = Sentinel
    /\ start_len[1] = 3

(* ---------------------------------- C27 -------------------------------- *)

\* The moderation service flagged the input of the last ChatAgent.chat call.
InputFlagged ==
    turn.op = "chat" /\ turn.input_moderation.flagged /\ ~turn.input_moderation.raises

\* C27: when the moderation service flags the input, ChatAgent.chat returns
\* a refusal that names the violated categories, makes no request to the
\* Mercury model (and none for an output check) and leaves messages as it
\* was: the flagged input is not appended.
C27_FlaggedInputRefused ==
    InputFlagged =>
        /\ response = <<"I cannot process that request. ", "Content policy violation: ",
                        turn.input_moderation.categories>>
        /\ turn.completion = NotCompleted
        /\ turn.output_moderation = NotAsked
        /\ messages = turn.before

\* An input is flagged after a turn that was answered.
C27_Witness ==
    /\ InputFlagged
    /\ Len(turn.before) = 3
    /\ turn.before[3].role = "assistant"

(* ---------------------------------- C28 -------------------------------- *)

\* What the last ChatAgent.chat call met.
InputPassed == turn.op = "chat" /\ ~InputFlagged

MercurySucceeded == InputPassed /\ turn.completion # NotCompleted /\ ~turn.completion.raises

MercuryFailed == InputPassed /\ turn.completion.raises

OutputFlagged ==
    MercurySucceeded /\ turn.output_moderation.flagged /\ ~turn.output_moderation.raises

OutputPassed == MercurySucceeded /\ ~OutputFlagged

\* The transcript with the user message of the last call and nothing else.
WithUserOnly == Append(turn.before, ChatMessage("user", Text(turn.user_input)))

\* C28: ChatAgent.chat appends the assistant message exactly when the input
\* check passed, the Mercury request succeeded and the output check passed.
\* An output that was flagged is not stored, and after a blocked output or a
\* failed Mercury request the user message stays in messages without an
\* assistant reply.
C28_AssistantStoredOnlyWhenChecked ==
    turn.op = "chat" =>
        /\ OutputPassed <=>
             messages = Append(WithUserOnly, ChatMessage("assistant", turn.completion.content))
        /\ OutputPassed <=> Len(messages) = Len(turn.before) + 2
        /\ (OutputFlagged \/ MercuryFailed) => messages = WithUserOnly
        /\ ~OutputPassed =>
             \A i \in (Len(turn.before) + 1) .. Len(messages) : messages[i].role # "assistant"

\* The output of a turn is blocked right after a turn whose Mercury request
\* failed: messages holds two user messages in a row.
C28_Witness ==
    /\ OutputFlagged
    /\ Len(messages) = 3
    /\ messages[2].role = "user"
    /\ messages[3].role = "user"

(* ---------------------------------- C29 -------------------------------- *)

\* The last pass of the loop of main called ChatAgent.chat.
PassCalledChat == main_pass.command = "chat"

\* C29: ChatAgent.chat never raises.  A moderation request that fails is
\* treated as safe: after a failing input check the Mercury request is made,
\* and after a failing output check the output is stored and returned.  A
\* Mercury request that fails is returned as the string "Error: ..." with
\* the text of the exception.  Every chat call returns a string, which the
\* loop of main prints, and the loop goes on to its next pass.
C29_ChatNeverRaises ==
    PassCalledChat =>
        /\ session = "running"
        /\ response # None
        /\ main_pass.shown = response
        /\ \A e \in {"Exception", "EOFError"} : main_pass.shown # UnexpectedError(e)
        /\ turn.input_moderation.raises => turn.completion # NotCompleted
        /\ turn.completion.raises =>
             response = <<"Error: ">> \o turn.completion.content
        /\ (turn.output_moderation.raises /\ ~turn.completion.raises) =>
             /\ response = turn.completion.content
             /\ Last(messages) = ChatMessage("assistant", response)

\* The input check and the Mercury request of one call both failed, in the
\* second turn of a session.
C29_Witness ==
    /\ PassCalledChat
    /\ turn.input_moderation.raises
    /\ turn.completion.raises
    /\ Len(turn.before) = 3

(* ---------------------------------- C30 -------------------------------- *)

\* The pass was one of conversational_agent_with_guardrails in which the
\* Mercury model answered.
Answering(p) ==
    /\ p.fn = "conversational_agent_with_guardrails"
    /\ ~p.skipped
    /\ p.completion # NotCompleted
    /\ ~p.completion.raises

\* The output guardrail blocked the output of the pass / marked it for review.
OutputBlocked(p) ==
    Answering(p) /\ p.output_moderation.flagged /\ ~p.output_moderation.raises

OutputAnnotated(p) ==
    /\ Answering(p)
    /\ p.output_moderation = Unflagged
    /\ p.validation = [raises |-> FALSE, text |-> "NO: vague"]

\* The conversation ends with the output of the last pass as the model gave
\* it, while the pass printed what the output guardrail made of it.
RawOutputStored ==
    /\ Answering(last_pass) =>
         /\ conv_messages = Append(last_pass.request,
                                   ChatMessage("assistant", last_pass.completion.content))
    /\ OutputBlocked(last_pass) =>
         /\ last_pass.printed =
                <<"[Response blocked by guardrails due to: ",
                  last_pass.output_moderation.categories, "]">>
         /\ Last(conv_messages).content # last_pass.printed
    /\ OutputAnnotated(last_pass) =>
         /\ last_pass.printed =
                last_pass.completion.content \o <<"[Note: Response quality flagged for review]">>
         /\ Last(conv_messages).content # last_pass.printed

\* The pass after one whose output was blocked or annotated sends the
\* conversation, that output included as the model gave it.
RawOutputSentLater ==
    (/\ OutputBlocked(last_pass) \/ OutputAnnotated(last_pass)
     /\ last_pass' # last_pass
     /\ last_pass'.fn = "conversational_agent_with_guardrails"
     /\ ~last_pass'.skipped) =>
        /\ IsPrefix(conv_messages, last_pass'.request)
        /\ Len(last_pass'.request) = Len(conv_messages) + 1
        /\ last_pass'.request[Len(conv_messages)] =
               ChatMessage("assistant", last_pass.completion.content)

\* C30: in conversational_agent_with_guardrails the output of the model is
\* appended to the conversation before the output guardrail runs: an output
\* the guardrail blocks or annotates is printed in that form, but is stored
\* as the model gave it and is sent so, as context, in the requests of the
\* later turns.
C30_RawOutputKeptInContext == []RawOutputStored /\ [][RawOutputSentLater]_vars

\* The output of the second turn was blocked, and the request of that turn
\* carried the output of the first as it is stored.
C30_Witness ==
    /\ OutputBlocked(last_pass)
    /\ Len(conv_messages) = 5
    /\ conv_messages[3].role = "assistant"
    /\ last_pass.request[3] = conv_messages[3]

====
